---- MODULE Spec2Model ----
(***************************************************************************)
(* Model of the IDPC balance extractor (extractor.py), of the 14 D N°3     *)
(* tax engine (regimen_14d3.py) and of the Streamlit script (app.py).       *)
(*                                                                          *)
(* Seven specifications share the module:                                   *)
(*   SpecRLI       the tax engine: Init draws the arguments of one call,    *)
(*                 and one action per entry point applies it;               *)
(*   Spec          the extraction run: pages are opened one after the other *)
(*                 and their rows are processed in order into `cuentas`;    *)
(*   SpecEmp       extraer_balance from the opened document: the text of    *)
(*                 page 1, the company data, then the pages;                *)
(*   SpecPerm      the extraction of a document and of the same document    *)
(*                 with its pages or rows in another order;                 *)
(*   SpecConsulta  the calls of get_valor on an extracted ledger;           *)
(*   SpecPagina    one page of loose words through _extraer_cuentas_pagina; *)
(*   SpecApp       the script runs of app.py: uploads, extras, the PPM      *)
(*                 amount and the mode, over st.session_state.              *)
(*                                                                          *)
(* Coordinates are kept in half units (every x is stored doubled), so that  *)
(* the center (x0 + x1) / 2 of a word is the integer x0 + x1.               *)
(***************************************************************************)
EXTENDS Integers, Sequences, FiniteSets, TLC

VARIABLES
    \* ---- tax engine (regimen_14d3.py)
    args,       \* the arguments of the call
    modo,       \* "ninguno" before the call, then "sin" or "con"
    r,          \* the ResultadoRLI the call returned
    \* ---- extraction run (extractor.py)
    cuentas,    \* the ledger: codigo -> [cuenta |-> nombre, montos |-> columna -> monto]
    fase,       \* "inicio", "pagina" (inside _extraer_cuentas_pagina), "entre", "fin"
    pagina,     \* number of pages handed to _extraer_cuentas_pagina so far
    leidas,     \* number of body words of the pages opened so far
    ancho,      \* the current page's width (0 outside _extraer_cuentas_pagina)
    cols,       \* the current page's columns: nombre -> x center (doubled)
    pendientes, \* the rows of lineas_ordenadas the loop has not reached yet
    fila,       \* locals of the last loop iteration: palabras_fila (sorted),
    codigo,     \*   codigo (None when the row has no code),
    nombre,     \*   nombre,
    valores_x,  \*   valores_x,
    asignadas,  \*   the column _asignar_columna returned for each of valores_x,
    registro,   \*   registro (its numeric keys; None when none was built)
    \* ---- history of the run
    aportado,   \* <<codigo, columna>> -> sum of the positive values assigned, all rows
    retenido,   \* the same sum over the rows that passed the cols_relevantes test
    \* ---- company data (extractor.py)
    full_text_p1, \* the text of page 1
    empresa,    \* the dict empresa
    excepcion,  \* TRUE once extraer_balance has raised
    \* ---- the ledger's consumers, and the run on permuted pages
    documento,  \* the pages of the run: for each page, the rows it hands to the ledger
    permutado,  \* the ledger the same pages give in another order
    consulta,   \* the last call of get_valor: codigo, columna and the value returned
    \* ---- one page through _extraer_cuentas_pagina (extractor.py)
    page_words, \* the words page.extract_words returned, in the order returned
    procesadas, \* the iterations of the loop over lineas_ordenadas, in order
    \* ---- the application (app.py)
    session_state, \* st.session_state: cuentas, empresa, the extras lists, modo_calculo, montos_editados
    pdf_upload, \* the file the uploader holds (None when it holds none)
    archivos_tmp, \* the temporary files on disk
    etapa,      \* "espera" between script runs, "cuerpo" after render_sidebar handled an upload
    lineas_app  \* what the last script run rendered: the line items of the sections, the warning of the add widget

varsRLI == <<args, modo, r>>
varsExt == <<cuentas, fase, pagina, leidas, ancho, cols, pendientes, fila, codigo, nombre, valores_x, asignadas, registro, aportado, retenido>>
varsEmp == <<full_text_p1, empresa, excepcion>>
varsLibro == <<documento, permutado, consulta>>
varsPag == <<page_words, procesadas>>
varsApp == <<session_state, pdf_upload, archivos_tmp, etapa, lineas_app>>
vars == <<varsRLI, varsExt, varsEmp, varsLibro, varsPag, varsApp>>

(***************************************************************************)
(* Bounds of the tax engine's inputs.                                       *)
(***************************************************************************)
MaxIngresos == 20
MaxEgresos == 9
MaxUF == 9
MaxPPM == 3
MaxAjuste == 1

(***************************************************************************)
(* regimen_14d3.py                                                          *)
(***************************************************************************)
\* TASA_IDPC = 0.125, kept as the exact fraction 1 / TASA_IDPC_DEN.
TASA_IDPC_DEN == 8
\* The literal 0.50 of calcular_con_incentivo, as the fraction 1 / MITAD_DEN.
MITAD_DEN == 2

\* int(x * f) for f = 1 / den: Python's int() of a float drops the fractional
\* part, i.e. rounds toward zero.  x * 0.125 and x * 0.5 are exact in binary
\* floating point for |x| < 2^53, which covers every amount of the model.
int_frac_redondea_abajo(x, den) == x \div den
int_frac(x, den) == IF x >= 0 THEN x \div den ELSE -((-x) \div den)

min_el_mayor(a, b) == IF b < a THEN a ELSE b
min(a, b) == IF b < a THEN b ELSE a

\* ResultadoRLI(): every field at its default 0.
ResultadoRLI ==
    [ total_ingresos |-> 0, total_egresos |-> 0, total_gastos_rechazados |-> 0,
      base_imponible |-> 0, idpc_sin_incentivo |-> 0, ppm |-> 0,
      saldo_sin_incentivo |-> 0,
      sub_total_base |-> 0, retiros_ejercicio |-> 0, multas_intereses_hist |-> 0,
      idpc_hist |-> 0, rli_invertida |-> 0, deduccion_incentivo |-> 0,
      porcentaje_rli |-> 0, uf_limite |-> 0, idpc_con_incentivo |-> 0,
      saldo_con_incentivo |-> 0 ]

calcular_sin_incentivo_olvida_rechazados(total_ingresos, total_egresos, total_gastos_rechazados, ppm) ==
    LET base == total_ingresos - total_egresos
        idpc == int_frac(base, TASA_IDPC_DEN)
    IN  [ ResultadoRLI EXCEPT
            !.total_ingresos = total_ingresos,
            !.total_egresos = total_egresos,
            !.total_gastos_rechazados = total_gastos_rechazados,
            !.ppm = ppm,
            !.base_imponible = base,
            !.idpc_sin_incentivo = idpc,
            !.saldo_sin_incentivo = idpc - ppm ]

calcular_sin_incentivo_toca_uf(total_ingresos, total_egresos, total_gastos_rechazados, ppm) ==
    LET base == total_ingresos - total_egresos + total_gastos_rechazados
        idpc == int_frac(base, TASA_IDPC_DEN)
    IN  [ ResultadoRLI EXCEPT
            !.total_ingresos = total_ingresos,
            !.total_egresos = total_egresos,
            !.total_gastos_rechazados = total_gastos_rechazados,
            !.ppm = ppm,
            !.base_imponible = base,
            !.sub_total_base = base,
            !.idpc_sin_incentivo = idpc,
            !.saldo_sin_incentivo = idpc - ppm ]

calcular_sin_incentivo(total_ingresos, total_egresos, total_gastos_rechazados, ppm) ==
    LET base == total_ingresos - total_egresos + total_gastos_rechazados
        idpc == int_frac(base, TASA_IDPC_DEN)
    IN  [ ResultadoRLI EXCEPT
            !.total_ingresos = total_ingresos,
            !.total_egresos = total_egresos,
            !.total_gastos_rechazados = total_gastos_rechazados,
            !.ppm = ppm,
            !.base_imponible = base,
            !.idpc_sin_incentivo = idpc,
            !.saldo_sin_incentivo = idpc - ppm ]

calcular_con_incentivo_sin_tope(total_ingresos, total_egresos, total_gastos_rechazados, ppm, retiros_ejercicio, multas_hist, idpc_hist, uf_valor_pesos) ==
    LET sub_base == total_ingresos - total_egresos + total_gastos_rechazados
        invertida == sub_base - retiros_ejercicio - multas_hist - idpc_hist
        porcentaje == int_frac(invertida, MITAD_DEN)
        deduccion == IF porcentaje < 0 THEN 0 ELSE porcentaje
        idpc == int_frac(deduccion, TASA_IDPC_DEN)
    IN  [ ResultadoRLI EXCEPT
            !.total_ingresos = total_ingresos,
            !.total_egresos = total_egresos,
            !.total_gastos_rechazados = total_gastos_rechazados,
            !.ppm = ppm,
            !.retiros_ejercicio = retiros_ejercicio,
            !.multas_intereses_hist = multas_hist,
            !.idpc_hist = idpc_hist,
            !.sub_total_base = sub_base,
            !.rli_invertida = invertida,
            !.porcentaje_rli = porcentaje,
            !.uf_limite = uf_valor_pesos,
            !.deduccion_incentivo = deduccion,
            !.idpc_con_incentivo = idpc,
            !.saldo_con_incentivo = idpc - ppm ]

calcular_con_incentivo(total_ingresos, total_egresos, total_gastos_rechazados, ppm, retiros_ejercicio, multas_hist, idpc_hist, uf_valor_pesos) ==
    LET sub_base == total_ingresos - total_egresos + total_gastos_rechazados
        invertida == sub_base - retiros_ejercicio - multas_hist - idpc_hist
        porcentaje == int_frac(invertida, MITAD_DEN)
        tope == min(porcentaje, uf_valor_pesos)
        deduccion == IF tope < 0 THEN 0 ELSE tope
        idpc == int_frac(deduccion, TASA_IDPC_DEN)
    IN  [ ResultadoRLI EXCEPT
            !.total_ingresos = total_ingresos,
            !.total_egresos = total_egresos,
            !.total_gastos_rechazados = total_gastos_rechazados,
            !.ppm = ppm,
            !.retiros_ejercicio = retiros_ejercicio,
            !.multas_intereses_hist = multas_hist,
            !.idpc_hist = idpc_hist,
            !.sub_total_base = sub_base,
            !.rli_invertida = invertida,
            !.porcentaje_rli = porcentaje,
            !.uf_limite = uf_valor_pesos,
            !.deduccion_incentivo = deduccion,
            !.idpc_con_incentivo = idpc,
            !.saldo_con_incentivo = idpc - ppm ]

(***************************************************************************)
(* extractor.py: texts.  A text is a sequence of one-character strings.     *)
(* Words come from pdfplumber's extract_words, which splits at white space, *)
(* so a text holds no blank and no line break.                              *)
(***************************************************************************)
None == "None"

DIGITOS == <<"0", "1", "2", "3", "4", "5", "6", "7", "8", "9">>
MINUSCULAS == <<"a", "b", "c", "d", "e", "f", "g", "h", "i", "j", "k", "l", "m", "n", "o", "p", "q", "r", "s", "t", "u", "v", "w", "x", "y", "z">>
MAYUSCULAS == <<"A", "B", "C", "D", "E", "F", "G", "H", "I", "J", "K", "L", "M", "N", "O", "P", "Q", "R", "S", "T", "U", "V", "W", "X", "Y", "Z">>

\* \d of the regular expressions.
es_digito(c) == \E i \in DOMAIN DIGITOS : DIGITOS[i] = c

\* str.upper(), character by character: the capital of each small letter.
MAYUSCULA_DE == [c \in {MINUSCULAS[j] : j \in DOMAIN MINUSCULAS} |-> MAYUSCULAS[CHOOSE j \in DOMAIN MINUSCULAS : MINUSCULAS[j] = c]]

upper(t) == [i \in DOMAIN t |-> IF t[i] \in DOMAIN MAYUSCULA_DE THEN MAYUSCULA_DE[t[i]] ELSE t[i]]

\* _CODIGO_PATTERN.match(t): ^\d{6}$
_CODIGO_PATTERN_sin_largo(t) == Len(t) >= 1 /\ \A i \in DOMAIN t : es_digito(t[i])
_CODIGO_PATTERN(t) == Len(t) = 6 /\ \A i \in DOMAIN t : es_digito(t[i])

\* re.match(r"^[\d\.]+$", t)
patron_numerico(t) == Len(t) >= 1 /\ \A i \in DOMAIN t : es_digito(t[i]) \/ t[i] = "."

\* int(limpio) of a non-empty string of digits.
RECURSIVE int_digitos(_)
int_digitos(limpio) ==
    IF limpio = <<>> THEN 0
    ELSE 10 * int_digitos(SubSeq(limpio, 1, Len(limpio) - 1))
         + ((CHOOSE i \in DOMAIN DIGITOS : DIGITOS[i] = limpio[Len(limpio)]) - 1)

_fmt_numero(texto) ==
    IF texto = <<>> THEN 0
    ELSE LET limpio == SelectSeq(texto, es_digito)
         IN  IF limpio = <<>> THEN 0 ELSE int_digitos(limpio)

\* " ".join(partes)
RECURSIVE join(_)
join(partes) ==
    IF partes = <<>> THEN <<>>
    ELSE IF Len(partes) = 1 THEN partes[1]
    ELSE partes[1] \o <<" ">> \o join(Tail(partes))

(***************************************************************************)
(* extractor.py: words and columns.  A word is [text, x0, x1, top]; its     *)
(* center (x0 + x1) / 2 is kept doubled, and so is every column center.     *)
(***************************************************************************)
abs(x) == IF x < 0 THEN -x ELSE x

centro(w) == w.x0 + w.x1

T_CODIGO == <<"C", "O", "D", "I", "G", "O">>
T_CUENTA == <<"C", "U", "E", "N", "T", "A">>
T_DEBITOS == <<"D", "E", "B", "I", "T", "O", "S">>
T_CREDITOS == <<"C", "R", "E", "D", "I", "T", "O", "S">>
T_DEUDOR == <<"D", "E", "U", "D", "O", "R">>
T_ACREEDOR == <<"A", "C", "R", "E", "E", "D", "O", "R">>
T_ACTIVOS == <<"A", "C", "T", "I", "V", "O", "S">>
T_PASIVOS == <<"P", "A", "S", "I", "V", "O", "S">>
T_PERDIDAS == <<"P", "E", "R", "D", "I", "D", "A", "S">>
T_GANANCIAS == <<"G", "A", "N", "A", "N", "C", "I", "A", "S">>
T_SALDO == <<"S", "A", "L", "D", "O">>

\* The tuple of header texts of _detectar_columnas_x.
ETIQUETAS == {T_CODIGO, T_CUENTA, T_DEBITOS, T_CREDITOS, T_DEUDOR, T_ACREEDOR, T_ACTIVOS, T_PASIVOS, T_PERDIDAS, T_GANANCIAS, T_SALDO}

\* The if/elif chain of _detectar_columnas_x: the key a header text sets
\* (None for SALDO, which is matched and sets nothing).
clave_de_etiqueta(t) ==
    CASE t = T_CODIGO -> "codigo"
      [] t = T_CUENTA -> "cuenta"
      [] t = T_DEBITOS -> "debitos"
      [] t = T_CREDITOS -> "creditos"
      [] t = T_DEUDOR -> "saldo_deudor"
      [] t = T_ACREEDOR -> "saldo_acreedor"
      [] t = T_ACTIVOS -> "activos"
      [] t = T_PASIVOS -> "pasivos"
      [] t = T_PERDIDAS -> "perdidas"
      [] t = T_GANANCIAS -> "ganancias"
      [] OTHER -> None

\* d[k] = v on a dict kept as a function.
poner(d, k, v) == [x \in DOMAIN d \cup {k} |-> IF x = k THEN v ELSE d[x]]

\* d.get(k, 0)
get(d, k) == IF k \in DOMAIN d THEN d[k] ELSE 0

dict_vacio == [k \in {} |-> 0]

RECURSIVE detectar_desde(_, _)
detectar_desde_x0(header_words, d) ==
    IF header_words = <<>> THEN d
    ELSE LET w == Head(header_words)
             k == clave_de_etiqueta(upper(w.text))
         IN  detectar_desde(Tail(header_words), IF k = None THEN d ELSE poner(d, k, 2 * w.x0))
detectar_desde(header_words, d) ==
    IF header_words = <<>> THEN d
    ELSE LET w == Head(header_words)
             k == clave_de_etiqueta(upper(w.text))
         IN  detectar_desde(Tail(header_words), IF k = None THEN d ELSE poner(d, k, centro(w)))

_detectar_columnas_x(words) ==
    LET es_encabezado(w) == upper(w.text) \in ETIQUETAS
    IN  detectar_desde(SelectSeq(words, es_encabezado), dict_vacio)

\* The fractions of _estimar_columnas_por_posicion, in hundredths.
CENTESIMAS == [debitos |-> 33, creditos |-> 42, saldo_deudor |-> 51, saldo_acreedor |-> 59, activos |-> 67, pasivos |-> 73, perdidas |-> 82, ganancias |-> 92]

\* width * fraction, doubled; exact for the widths of the model (multiples of 50).
_estimar_columnas_por_posicion(width) == [k \in DOMAIN CENTESIMAS |-> (2 * width * CENTESIMAS[k]) \div 100]

columnas_numericas == <<"debitos", "creditos", "saldo_deudor", "saldo_acreedor", "activos", "pasivos", "perdidas", "ganancias">>

cols_relevantes == {"activos", "pasivos", "perdidas", "ganancias", "saldo_deudor", "saldo_acreedor"}

\* The dict {k: cols[k] for k in columnas_numericas if k in cols} handed to
\* _asignar_columna: its keys in insertion order, and its values.
dict_numerico(c) == [claves |-> SelectSeq(columnas_numericas, LAMBDA k : k \in DOMAIN c), valor |-> c]

\* min(claves, key=...): the first key, in the dict's order, of minimal distance.
RECURSIVE min_por_distancia(_, _, _)
min_por_distancia_ultima(claves, valor, x) ==
    IF Len(claves) = 1 THEN claves[1]
    ELSE LET resto == min_por_distancia(Tail(claves), valor, x)
         IN  IF abs(valor[claves[1]] - x) < abs(valor[resto] - x) THEN claves[1] ELSE resto
min_por_distancia(claves, valor, x) ==
    IF Len(claves) = 1 THEN claves[1]
    ELSE LET resto == min_por_distancia(Tail(claves), valor, x)
         IN  IF abs(valor[claves[1]] - x) <= abs(valor[resto] - x) THEN claves[1] ELSE resto

_asignar_columna_primera(x, d) == IF d.claves = <<>> THEN None ELSE d.claves[1]
_asignar_columna(x, d) == IF d.claves = <<>> THEN None ELSE min_por_distancia(d.claves, d.valor, x)

(***************************************************************************)
(* extractor.py: _extraer_cuentas_pagina, row by row.                       *)
(***************************************************************************)
\* round(w["top"] / 3) * 3.  For an integral top >= 0 the quotient top / 3 is
\* never a half, so rounding is to the nearest integer.
BANDA == 3
y_key_piso(top) == BANDA * (top \div BANDA)
y_key(top) == BANDA * ((2 * top + BANDA) \div (2 * BANDA))

\* sorted() of a set of integers.
RECURSIVE sorted(_)
sorted(S) ==
    IF S = {} THEN <<>>
    ELSE LET m == CHOOSE x \in S : \A y \in S : x <= y
         IN  <<m>> \o sorted(S \ {m})

\* lineas_dict filled word by word, then sorted(lineas_dict.items()).
lineas_ordenadas(words) ==
    LET ys == sorted({y_key(words[i].top) : i \in DOMAIN words})
    IN  [i \in DOMAIN ys |-> [y |-> ys[i], palabras |-> SelectSeq(words, LAMBDA w : y_key(w.top) = ys[i])]]

\* palabras_fila.sort(key=lambda w: w["x0"]): stable.
insertar_x0(w, s) ==
    LET n == Cardinality({i \in DOMAIN s : s[i].x0 <= w.x0})
    IN  SubSeq(s, 1, n) \o <<w>> \o SubSeq(s, n + 1, Len(s))

RECURSIVE sort_x0(_)
sort_x0(s) ==
    IF s = <<>> THEN <<>>
    ELSE insertar_x0(s[Len(s)], sort_x0(SubSeq(s, 1, Len(s) - 1)))

\* The search for the code: the index of the first text matching
\* _CODIGO_PATTERN, 0 when there is none (indices start at 1).
codigo_idx_ultima(textos) ==
    IF \E i \in DOMAIN textos : _CODIGO_PATTERN(textos[i])
    THEN CHOOSE i \in DOMAIN textos : _CODIGO_PATTERN(textos[i]) /\ \A j \in (i + 1)..Len(textos) : ~_CODIGO_PATTERN(textos[j])
    ELSE 0
codigo_idx(textos) ==
    IF \E i \in DOMAIN textos : _CODIGO_PATTERN(textos[i])
    THEN CHOOSE i \in DOMAIN textos : _CODIGO_PATTERN(textos[i]) /\ \A j \in 1..(i - 1) : ~_CODIGO_PATTERN(textos[j])
    ELSE 0

\* nombre_parts: the texts after the code up to the first numeric one.
nombre_parts_todas(textos, idx) == SelectSeq(SubSeq(textos, idx + 1, Len(textos)), LAMBDA t : ~patron_numerico(t))
nombre_parts(textos, idx) ==
    LET paro == {j \in (idx + 1)..Len(textos) : patron_numerico(textos[j])}
        num_idx == IF paro = {} THEN Len(textos) + 1 ELSE CHOOSE j \in paro : \A k \in paro : j <= k
    IN  SubSeq(textos, idx + 1, num_idx - 1)

\* valores_x: (x center, value) of every numeric word of the row.
valores_de(palabras_fila) ==
    LET nums == SelectSeq(palabras_fila, LAMBDA w : patron_numerico(w.text))
    IN  [i \in DOMAIN nums |-> [x |-> centro(nums[i]), valor |-> _fmt_numero(nums[i].text)]]

\* The loop over valores_x that fills registro (its numeric keys).
RECURSIVE registro_desde(_, _, _)
registro_desde_pisa(valores, c, reg) ==
    IF valores = <<>> THEN reg
    ELSE LET col == _asignar_columna(valores[1].x, dict_numerico(c))
         IN  registro_desde(Tail(valores), c, IF col # None /\ valores[1].valor > 0 THEN poner(reg, col, valores[1].valor) ELSE reg)
registro_desde_sin_filtro(valores, c, reg) ==
    IF valores = <<>> THEN reg
    ELSE LET col == _asignar_columna(valores[1].x, dict_numerico(c))
         IN  registro_desde(Tail(valores), c, IF col # None THEN poner(reg, col, get(reg, col) + valores[1].valor) ELSE reg)
registro_desde(valores, c, reg) ==
    IF valores = <<>> THEN reg
    ELSE LET col == _asignar_columna(valores[1].x, dict_numerico(c))
         IN  registro_desde(Tail(valores), c, IF col # None /\ valores[1].valor > 0 THEN poner(reg, col, get(reg, col) + valores[1].valor) ELSE reg)

\* any(k in registro for k in cols_relevantes)
tiene_saldo_cualquiera(reg) == DOMAIN reg # {}
tiene_saldo(reg) == \E k \in cols_relevantes : k \in DOMAIN reg

\* The insertion or accumulation of registro into cuentas.
acumular_pisa(cs, cod, nom, reg) ==
    IF cod \notin DOMAIN cs THEN poner(cs, cod, [cuenta |-> nom, montos |-> reg])
    ELSE [cs EXCEPT ![cod].montos = [k \in DOMAIN @ \cup DOMAIN reg |-> IF k \in DOMAIN reg THEN reg[k] ELSE @[k]]]
acumular(cs, cod, nom, reg) ==
    IF cod \notin DOMAIN cs THEN poner(cs, cod, [cuenta |-> nom, montos |-> reg])
    ELSE [cs EXCEPT ![cod].montos = [k \in DOMAIN @ \cup DOMAIN reg |-> IF k \in DOMAIN reg THEN get(@, k) + reg[k] ELSE @[k]]]

\* One iteration of the loop over lineas_ordenadas: its locals and whether
\* the row reaches the ledger.
iteracion(palabras, c) ==
    LET palabras_fila == sort_x0(palabras)
        textos == [i \in DOMAIN palabras_fila |-> palabras_fila[i].text]
        idx == codigo_idx(textos)
        vals == valores_de(palabras_fila)
        reg == registro_desde(vals, c, dict_vacio)
    IN  IF idx = 0
        THEN [fila |-> palabras_fila, codigo |-> <<>>, nombre |-> <<>>, valores_x |-> <<>>, asignadas |-> <<>>, registro |-> dict_vacio, agrega |-> FALSE]
        ELSE IF vals = <<>>
        THEN [fila |-> palabras_fila, codigo |-> textos[idx], nombre |-> join(nombre_parts(textos, idx)), valores_x |-> vals, asignadas |-> <<>>, registro |-> dict_vacio, agrega |-> FALSE]
        ELSE [fila |-> palabras_fila, codigo |-> textos[idx], nombre |-> join(nombre_parts(textos, idx)), valores_x |-> vals,
              asignadas |-> [i \in DOMAIN vals |-> _asignar_columna(vals[i].x, dict_numerico(c))],
              registro |-> reg, agrega |-> tiene_saldo(reg)]

(***************************************************************************)
(* History of the run: what the rows of each code put in each column,       *)
(* summed value by value from the words of the row.                         *)
(***************************************************************************)
RECURSIVE sumar_aportes(_, _, _, _)
sumar_aportes(h, cod, vals, asig) ==
    IF vals = <<>> THEN h
    ELSE sumar_aportes(IF vals[1].valor > 0 /\ asig[1] # None THEN poner(h, <<cod, asig[1]>>, get(h, <<cod, asig[1]>>) + vals[1].valor) ELSE h, cod, Tail(vals), Tail(asig))

fila_con_saldo(vals, asig) == \E i \in DOMAIN vals : vals[i].valor > 0 /\ asig[i] \in cols_relevantes

(***************************************************************************)
(* extractor.py: _extraer_cuentas_pagina as a function of the page, and the *)
(* query get_valor.                                                         *)
(***************************************************************************)
\* The rows of a page that reach the ledger, in the order of the loop: the
\* codigo, nombre and registro of each.
RECURSIVE filas_retenidas(_, _)
filas_retenidas(pend, c) ==
    IF pend = <<>> THEN <<>>
    ELSE LET it == iteracion(pend[1].palabras, c)
         IN  (IF it.agrega THEN <<[codigo |-> it.codigo, nombre |-> it.nombre, registro |-> it.registro]>> ELSE <<>>)
             \o filas_retenidas(Tail(pend), c)

\* The ledger after those rows were inserted or accumulated, one by one.
RECURSIVE acumular_filas(_, _)
acumular_filas(filas, cs) ==
    IF filas = <<>> THEN cs
    ELSE acumular_filas(Tail(filas), acumular(cs, filas[1].codigo, filas[1].nombre, filas[1].registro))

\* The tuple get_valor walks when columna is None.
ORDEN_SIN_COLUMNA == <<"ganancias", "perdidas", "activos", "pasivos", "saldo_acreedor", "saldo_deudor">>

\* The loop of get_valor: the first amount of reg, in the order given,
\* that is present and > 0; 0 when there is none.
RECURSIVE primer_positivo(_, _)
primer_positivo(reg, orden) ==
    IF orden = <<>> THEN 0
    ELSE IF orden[1] \in DOMAIN reg /\ reg[orden[1]] > 0 THEN reg[orden[1]]
    ELSE primer_positivo(reg, Tail(orden))

\* get_valor(cuentas, codigo, columna); columna is a column name or None.
get_valor_en_orden_de_columnas(cs, cod, columna) ==
    IF cod \notin DOMAIN cs THEN 0
    ELSE IF columna # None THEN get(cs[cod].montos, columna)
    ELSE primer_positivo(cs[cod].montos, columnas_numericas)
get_valor(cs, cod, columna) ==
    IF cod \notin DOMAIN cs THEN 0
    ELSE IF columna # None THEN get(cs[cod].montos, columna)
    ELSE primer_positivo(cs[cod].montos, ORDEN_SIN_COLUMNA)

consulta_vacia == [codigo |-> <<>>, columna |-> None, valor |-> 0]

(***************************************************************************)
(* extractor.py: the company data (_extraer_datos_empresa).  The text of    *)
(* page 1 is a sequence of one-character strings, line breaks included.     *)
(* Positions in a text start at 1; find keeps Python's result (0-based, -1  *)
(* when absent) because the code compares it with 0.                        *)
(***************************************************************************)
\* The first position at or after i that holds a character of S, Len(s) + 1
\* when there is none.
RECURSIVE hasta(_, _, _)
hasta(s, i, S) == IF i > Len(s) \/ s[i] \in S THEN i ELSE hasta(s, i + 1, S)

\* The first position at or after i that holds a character outside S.
RECURSIVE hasta_otro(_, _, _)
hasta_otro(s, i, S) == IF i > Len(s) \/ s[i] \notin S THEN i ELSE hasta_otro(s, i + 1, S)

\* White space: \s of the regular expressions and what strip() removes.
BLANCOS == {" ", "\n"}

\* texto.splitlines()
RECURSIVE splitlines(_)
splitlines(t) ==
    IF t = <<>> THEN <<>>
    ELSE LET n == hasta(t, 1, {"\n"})
         IN  <<SubSeq(t, 1, n - 1)>> \o splitlines(SubSeq(t, n + 1, Len(t)))

\* l.strip()
RECURSIVE strip(_)
strip(l) ==
    IF l = <<>> THEN l
    ELSE IF l[1] \in BLANCOS THEN strip(Tail(l))
    ELSE IF l[Len(l)] \in BLANCOS THEN strip(SubSeq(l, 1, Len(l) - 1))
    ELSE l

\* [l.strip() for l in texto.splitlines() if l.strip()]
lineas_de(texto) ==
    LET crudas == splitlines(texto)
        limpias == [i \in DOMAIN crudas |-> strip(crudas[i])]
    IN  SelectSeq(limpias, LAMBDA l : l # <<>>)

\* s starts with w at position i.
empieza_en(s, i, w) == i >= 1 /\ i + Len(w) - 1 <= Len(s) /\ SubSeq(s, i, i + Len(w) - 1) = w

\* s.find(sub): the 0-based index of the first occurrence, -1 when absent.
find_base_uno(s, sub) ==
    LET donde == {i \in 1..(Len(s) + 1) : empieza_en(s, i, sub)}
    IN  IF donde = {} THEN -1 ELSE CHOOSE i \in donde : \A j \in donde : i <= j
find(s, sub) ==
    LET donde == {i \in 1..(Len(s) + 1) : empieza_en(s, i, sub)}
    IN  IF donde = {} THEN -1 ELSE (CHOOSE i \in donde : \A j \in donde : i <= j) - 1

\* sub in s
contiene(s, sub) == \E i \in 1..(Len(s) + 1) : empieza_en(s, i, sub)

\* _RUT_PATTERN = \d{1,2}[\.\d]*\d-[\dkK] tried at position i: the position of
\* the last character of the match, 0 when it does not match there.  Every
\* character before the dash is a digit or a dot, so the dash is the first
\* character after i that is neither; the pattern asks for a digit at i, a
\* digit right before the dash, at least two characters before the dash, and
\* a digit, k or K after it.
DIGITOS_Y_PUNTO == {"0", "1", "2", "3", "4", "5", "6", "7", "8", "9", "."}
VERIFICADORES == {"0", "1", "2", "3", "4", "5", "6", "7", "8", "9", "k", "K"}

_RUT_PATTERN_en(s, i) ==
    LET h == hasta_otro(s, i, DIGITOS_Y_PUNTO)
    IN  IF es_digito(s[i]) /\ h >= i + 2 /\ h + 1 <= Len(s) /\ s[h] = "-" /\ es_digito(s[h - 1]) /\ s[h + 1] \in VERIFICADORES
        THEN h + 1 ELSE 0

\* _RUT_PATTERN.findall(linea): its first element (the leftmost match), the
\* empty text when the list is empty.
primer_rut(linea) ==
    LET donde == {i \in DOMAIN linea : _RUT_PATTERN_en(linea, i) # 0}
    IN  IF donde = {} THEN <<>>
        ELSE LET i == CHOOSE a \in donde : \A b \in donde : a <= b
             IN  SubSeq(linea, i, _RUT_PATTERN_en(linea, i))

\* The words of _PERIODO_PATTERN and of the giro loop, and _MESES in the order
\* of the alternation.
P_BALANCE == <<"B", "A", "L", "A", "N", "C", "E">>
P_DESDE == <<"D", "E", "S", "D", "E">>
P_HASTA == <<"H", "A", "S", "T", "A">>
P_DEL == <<"D", "E", "L">>
_MESES ==
    << <<"E", "N", "E", "R", "O">>,
       <<"F", "E", "B", "R", "E", "R", "O">>,
       <<"M", "A", "R", "Z", "O">>,
       <<"A", "B", "R", "I", "L">>,
       <<"M", "A", "Y", "O">>,
       <<"J", "U", "N", "I", "O">>,
       <<"J", "U", "L", "I", "O">>,
       <<"A", "G", "O", "S", "T", "O">>,
       <<"S", "E", "P", "T", "I", "E", "M", "B", "R", "E">>,
       <<"O", "C", "T", "U", "B", "R", "E">>,
       <<"N", "O", "V", "I", "E", "M", "B", "R", "E">>,
       <<"D", "I", "C", "I", "E", "M", "B", "R", "E">> >>

\* The pieces of _PERIODO_PATTERN tried at position i of s: the position
\* after the piece, 0 when it does not match there (or when i is 0).
literal(s, i, w) == IF i # 0 /\ empieza_en(s, i, w) THEN i + Len(w) ELSE 0

\* \s+
espacios(s, i) == IF i # 0 /\ i <= Len(s) /\ s[i] \in BLANCOS THEN hasta_otro(s, i, BLANCOS) ELSE 0

\* (?:ENERO|FEBRERO|...): no name is the beginning of another, so at most one fits.
mes(s, i) ==
    LET cuales == {m \in DOMAIN _MESES : literal(s, i, _MESES[m]) # 0}
    IN  IF cuales = {} THEN 0 ELSE literal(s, i, _MESES[CHOOSE m \in cuales : TRUE])

\* \d{4}
cuatro_digitos(s, i) == IF i # 0 /\ i + 3 <= Len(s) /\ \A j \in i..(i + 3) : es_digito(s[j]) THEN i + 4 ELSE 0

\* ({_MESES}\s+DEL\s+\d{4})
mes_del_anio(s, i) == cuatro_digitos(s, espacios(s, literal(s, espacios(s, mes(s, i)), P_DEL)))

\* _PERIODO_PATTERN tried at position i: the two groups, or hay = FALSE.
_PERIODO_PATTERN_en(s, i) ==
    LET a == espacios(s, literal(s, espacios(s, literal(s, i, P_BALANCE)), P_DESDE))
        b == mes_del_anio(s, a)
        c == espacios(s, literal(s, espacios(s, b), P_HASTA))
        d == mes_del_anio(s, c)
    IN  IF d # 0 THEN [hay |-> TRUE, g1 |-> SubSeq(s, a, b - 1), g2 |-> SubSeq(s, c, d - 1)]
        ELSE [hay |-> FALSE, g1 |-> <<>>, g2 |-> <<>>]

\* _PERIODO_PATTERN.search(s): the leftmost match.
_PERIODO_PATTERN_search(s) ==
    LET donde == {i \in DOMAIN s : s[i] = "B" /\ _PERIODO_PATTERN_en(s, i).hay}
    IN  IF donde = {} THEN [hay |-> FALSE, g1 |-> <<>>, g2 |-> <<>>]
        ELSE _PERIODO_PATTERN_en(s, CHOOSE a \in donde : \A b \in donde : a <= b)

\* The dict empresa of extraer_balance before _extraer_datos_empresa runs.
empresa_vacia == [razon_social |-> <<>>, rut |-> <<>>, giro |-> <<>>, direccion |-> <<>>, comuna |-> <<>>, periodo |-> <<>>]

\* The number of lines searched for the RUT (lineas[:15]).
PRIMERAS_LINEAS == 15

\* The loop over campos_restantes from iteration j on (j and giro_idx are
\* 0-based as in the code, giro_idx = -1 standing for None).
RECURSIVE campos_desde(_, _, _, _)
campos_desde_sin_upper(campos, j, giro_idx, e) ==
    IF j >= Len(campos) THEN e
    ELSE LET linea == campos[j + 1]
         IN  IF contiene(linea, P_BALANCE) \/ contiene(linea, P_DESDE) THEN e
             ELSE IF giro_idx = -1 /\ linea # <<>> THEN campos_desde(campos, j + 1, j, [e EXCEPT !.giro = linea])
             ELSE IF giro_idx # -1 /\ j = giro_idx + 1 THEN campos_desde(campos, j + 1, giro_idx, [e EXCEPT !.direccion = linea])
             ELSE IF giro_idx # -1 /\ j = giro_idx + 2 THEN [e EXCEPT !.comuna = linea]
             ELSE campos_desde(campos, j + 1, giro_idx, e)
campos_desde(campos, j, giro_idx, e) ==
    IF j >= Len(campos) THEN e
    ELSE LET linea == campos[j + 1]
         IN  IF contiene(upper(linea), P_BALANCE) \/ contiene(upper(linea), P_DESDE) THEN e
             ELSE IF giro_idx = -1 /\ linea # <<>> THEN campos_desde(campos, j + 1, j, [e EXCEPT !.giro = linea])
             ELSE IF giro_idx # -1 /\ j = giro_idx + 1 THEN campos_desde(campos, j + 1, giro_idx, [e EXCEPT !.direccion = linea])
             ELSE IF giro_idx # -1 /\ j = giro_idx + 2 THEN [e EXCEPT !.comuna = linea]
             ELSE campos_desde(campos, j + 1, giro_idx, e)

\* _extraer_datos_empresa(texto, empresa): the dict it leaves.
_extraer_datos_empresa_sin_tope(texto, emp) ==
    LET lineas == lineas_de(texto)
        m == _PERIODO_PATTERN_search(upper(texto))
        e1 == IF m.hay THEN [emp EXCEPT !.periodo = <<"D", "E", "S", "D", "E", " ">> \o m.g1 \o <<" ", "H", "A", "S", "T", "A", " ">> \o m.g2] ELSE emp
        con_rut == {i \in 1..Len(lineas) : primer_rut(lineas[i]) # <<>>}
    IN  IF con_rut = {}
        THEN IF lineas # <<>> THEN [e1 EXCEPT !.razon_social = lineas[1]] ELSE e1
        ELSE LET rut_idx == CHOOSE i \in con_rut : \A k \in con_rut : i <= k
                 linea_rut == lineas[rut_idx]
                 rut == primer_rut(linea_rut)
                 e2 == [e1 EXCEPT !.rut = rut]
                 e3 == IF rut_idx > 1 THEN [e2 EXCEPT !.razon_social = lineas[rut_idx - 1]] ELSE e2
                 idx_rut_en_linea == find(linea_rut, rut)
                 e4 == IF idx_rut_en_linea > 0 THEN [e3 EXCEPT !.razon_social = strip(SubSeq(linea_rut, 1, idx_rut_en_linea))] ELSE e3
                 offset == IF idx_rut_en_linea > 0 THEN 0 ELSE 1
             IN  campos_desde(SubSeq(lineas, rut_idx + offset, Len(lineas)), 0, -1, e4)
_extraer_datos_empresa(texto, emp) ==
    LET lineas == lineas_de(texto)
        m == _PERIODO_PATTERN_search(upper(texto))
        e1 == IF m.hay THEN [emp EXCEPT !.periodo = <<"D", "E", "S", "D", "E", " ">> \o m.g1 \o <<" ", "H", "A", "S", "T", "A", " ">> \o m.g2] ELSE emp
        con_rut == {i \in 1..min(PRIMERAS_LINEAS, Len(lineas)) : primer_rut(lineas[i]) # <<>>}
    IN  IF con_rut = {}
        THEN IF lineas # <<>> THEN [e1 EXCEPT !.razon_social = lineas[1]] ELSE e1
        ELSE LET rut_idx == CHOOSE i \in con_rut : \A k \in con_rut : i <= k
                 linea_rut == lineas[rut_idx]
                 rut == primer_rut(linea_rut)
                 e2 == [e1 EXCEPT !.rut = rut]
                 e3 == IF rut_idx > 1 THEN [e2 EXCEPT !.razon_social = lineas[rut_idx - 1]] ELSE e2
                 idx_rut_en_linea == find(linea_rut, rut)
                 e4 == IF idx_rut_en_linea > 0 THEN [e3 EXCEPT !.razon_social = strip(SubSeq(linea_rut, 1, idx_rut_en_linea))] ELSE e3
                 offset == IF idx_rut_en_linea > 0 THEN 0 ELSE 1
             IN  campos_desde(SubSeq(lineas, rut_idx + offset, Len(lineas)), 0, -1, e4)

(***************************************************************************)
(* The texts of page 1 of the model: up to MaxRelleno filler lines, then up *)
(* to MaxLineas lines drawn from LineasP1, each line ended by a line break. *)
(***************************************************************************)
MaxRelleno == 16
MaxLineas == 3

L_RELLENO == <<"x">>
L_RUT == <<"7", ".", "1", "-", "K">>
L_CONCATENADA == <<" ", "A", "c", "m", "e", " ", "7", ".", "1", "-", "K", " ", "G", "i", "r", "o", " ">>
L_PERIODO == <<"B", "a", "l", "a", "n", "c", "e", " ", "d", "e", "s", "d", "e", " ", "E", "n", "e", "r", "o", " ", "d", "e", "l", " ", "2", "0", "2", "3", " ", "h", "a", "s", "t", "a", " ", "M", "a", "r", "z", "o", " ", " ", "d", "e", "l", " ", "2", "0", "2", "4">>
L_BLANCA == <<" ">>
L_CASI_RUT == <<"A", "v", " ", "1", "-", "2">>

LineasP1 == {L_RUT, L_CONCATENADA, L_PERIODO, L_BLANCA, L_CASI_RUT}

\* The text made of the lines of a sequence, each followed by a line break.
RECURSIVE unir_lineas(_)
unir_lineas(ls) == IF ls = <<>> THEN <<>> ELSE ls[1] \o <<"\n">> \o unir_lineas(Tail(ls))

TextosP1 ==
    {unir_lineas([i \in 1..k |-> L_RELLENO] \o cuerpo_p1) :
        k \in 0..MaxRelleno, cuerpo_p1 \in UNION {[1..n -> LineasP1] : n \in 0..MaxLineas}}

(***************************************************************************)
(* The texts of page 1 with the tax id on a line of its own: up to          *)
(* MaxAntes filler lines, the tax id, then up to MaxCampos lines drawn from *)
(* CamposP1.                                                                *)
(***************************************************************************)
MaxAntes == 2
MaxCampos == 3

L_GIRO == <<"G", "i", "r", "o">>
L_COMUNA == <<"M", "a", "i", "p", "u">>
L_DESDE == <<"d", "e", "s", "d", "e", " ", "2", "0", "2", "3">>

CamposP1 == {L_GIRO, L_CASI_RUT, L_COMUNA, L_PERIODO, L_DESDE}

TextosAnclados ==
    {unir_lineas([i \in 1..k |-> L_RELLENO] \o <<L_RUT>> \o campos_p1) :
        k \in 0..MaxAntes, campos_p1 \in UNION {[1..n -> CamposP1] : n \in 0..MaxCampos}}

(***************************************************************************)
(* The documents of the model: at most MaxPaginas pages holding at most     *)
(* MaxPalabras body words in all.  A page is a width and the words that     *)
(* extract_words returns, in reading order: its header line, then its body  *)
(* words placed on a grid of lines (Tops) and positions.                    *)
(***************************************************************************)
MaxPaginas == 2
MaxPalabras == 4

Palabra(text, x0, x1, top) == [text |-> text, x0 |-> x0, x1 |-> x1, top |-> top]

T_110101 == <<"1", "1", "0", "1", "0", "1">>
T_000000 == <<"0", "0", "0", "0", "0", "0">>
T_12345 == <<"1", "2", "3", "4", "5">>
T_1p5 == <<"1", ".", "5">>
T_0 == <<"0">>
T_CAJA == <<"C", "A", "J", "A">>

Textos == {T_110101, T_000000, T_12345, T_1p5, T_0, T_CAJA}

\* x0 and x1 of the places a word of the body may take: the code's place at
\* the left margin and a place under the balance columns.
Posiciones == <<[x0 |-> 4, x1 |-> 10], [x0 |-> 65, x1 |-> 69]>>
Tops == <<10, 13>>

EncabezadoCompleto ==
    << Palabra(T_CODIGO, 4, 10, 1), Palabra(T_CUENTA, 12, 20, 1),
       Palabra(T_DEBITOS, 24, 28, 1), Palabra(T_CREDITOS, 32, 36, 1),
       Palabra(T_SALDO, 40, 44, 1), Palabra(T_DEUDOR, 40, 44, 1),
       Palabra(T_ACREEDOR, 48, 52, 1), Palabra(T_ACTIVOS, 56, 60, 1),
       Palabra(T_PASIVOS, 64, 68, 1), Palabra(T_PERDIDAS, 72, 76, 1),
       Palabra(T_GANANCIAS, 80, 84, 1) >>

\* A header of which only four labels are legible, in mixed case; the place
\* under the balance columns is midway between Perdidas and Ganancias.
EncabezadoParcial ==
    << Palabra(<<"C", "o", "d", "i", "g", "o">>, 4, 10, 1), Palabra(<<"C", "u", "e", "n", "t", "a">>, 12, 20, 1),
       Palabra(<<"P", "e", "r", "d", "i", "d", "a", "s">>, 58, 62, 1), Palabra(<<"G", "a", "n", "a", "n", "c", "i", "a", "s">>, 72, 76, 1) >>

Formatos ==
    { [width |-> 100, encabezado |-> <<>>],
      [width |-> 100, encabezado |-> EncabezadoCompleto], [width |-> 100, encabezado |-> EncabezadoParcial] }

Lugares == (DOMAIN Tops) \X (DOMAIN Posiciones)

\* The words of a body, given which places are taken and by which text, in
\* reading order (line by line, left to right).
RECURSIVE cuerpo(_, _)
cuerpo(lugares, texto_en) ==
    IF lugares = {} THEN <<>>
    ELSE LET l == CHOOSE a \in lugares : \A b \in lugares : a[1] < b[1] \/ (a[1] = b[1] /\ a[2] <= b[2])
         IN  <<Palabra(texto_en[l], Posiciones[l[2]].x0, Posiciones[l[2]].x1, Tops[l[1]])>> \o cuerpo(lugares \ {l}, texto_en)

\* The bodies of n words.
Cuerpos(n) == UNION { {cuerpo(L, f) : f \in [L -> Textos]} : L \in {M \in SUBSET Lugares : Cardinality(M) = n} }

\* The pages whose body has n words.
Paginas(n) == {[width |-> f.width, words |-> f.encabezado \o c] : f \in Formatos, c \in Cuerpos(n)}

(***************************************************************************)
(* extractor.py: the extraction run (extraer_balance).                      *)
(***************************************************************************)
InitCorrida ==
    /\ cuentas = dict_vacio
    /\ pagina = 0
    /\ leidas = 0
    /\ ancho = 0
    /\ cols = dict_vacio
    /\ pendientes = <<>>
    /\ fila = <<>>
    /\ codigo = <<>>
    /\ nombre = <<>>
    /\ valores_x = <<>>
    /\ asignadas = <<>>
    /\ registro = dict_vacio
    /\ aportado = dict_vacio
    /\ retenido = dict_vacio

InitEmp ==
    /\ full_text_p1 = <<>>
    /\ empresa = empresa_vacia
    /\ excepcion = FALSE

InitLibro ==
    /\ documento = <<>>
    /\ permutado = dict_vacio
    /\ consulta = consulta_vacia

InitPag ==
    /\ page_words = <<>>
    /\ procesadas = <<>>

\* app.py, _init_state: the defaults of st.session_state (the keys the
\* upload, the extras lists and the mode selector use).
_init_state ==
    [cuentas |-> dict_vacio, empresa |-> dict_vacio,
     extras_ingresos |-> <<>>, extras_egresos |-> <<>>, extras_gastos |-> <<>>, extras_remuneraciones |-> <<>>,
     modo_calculo |-> "sin", montos_editados |-> dict_vacio]

sin_lineas == [ingresos |-> <<>>, egresos |-> <<>>, gastos |-> <<>>, aviso_ya_agregada |-> FALSE]

InitApp ==
    /\ session_state = _init_state
    /\ pdf_upload = None
    /\ archivos_tmp = {}
    /\ etapa = "espera"
    /\ lineas_app = sin_lineas

\* The run of the loop over the pages, from its start.
InitExt ==
    /\ fase = "inicio"
    /\ InitCorrida
    /\ InitEmp
    /\ InitLibro
    /\ InitPag
    /\ InitApp

\* The start of _extraer_cuentas_pagina: the rows of the page's words and
\* the page's columns (the proportional estimate when fewer than 4 keys
\* were detected).  A page without words returns at once.
abrir(pg) ==
    LET detectadas == _detectar_columnas_x(pg.words)
    IN  [ ancho |-> pg.width,
          pendientes |-> lineas_ordenadas(pg.words),
          cols |-> IF pg.words = <<>> THEN dict_vacio
                   ELSE IF Cardinality(DOMAIN detectadas) < 4 THEN _estimar_columnas_por_posicion(pg.width)
                   ELSE detectadas ]

\* What _extraer_cuentas_pagina starts from, for the pages of each body size.
PaginasAbiertas == [n \in 0..Cardinality(Lugares) |-> {abrir(pg) : pg \in Paginas(n)}]

\* extraer_balance hands the next page to _extraer_cuentas_pagina.
AbrirPagina ==
    /\ fase \in {"inicio", "entre"}
    /\ pagina < MaxPaginas
    /\ \E n \in 0..Cardinality(Lugares) :
          /\ leidas + n <= MaxPalabras
          /\ leidas' = leidas + n
          /\ \E a \in PaginasAbiertas[n] :
                /\ ancho' = a.ancho
                /\ pendientes' = a.pendientes
                /\ cols' = a.cols
    /\ fase' = "pagina"
    /\ pagina' = pagina + 1
    /\ UNCHANGED <<fila, codigo, nombre, valores_x, asignadas, registro, cuentas, aportado, retenido, varsRLI, varsEmp, varsLibro, varsPag, varsApp>>

\* One iteration of the loop over the rows of the page.
ProcesarFila ==
    /\ fase = "pagina"
    /\ pendientes # <<>>
    /\ \E it \in {iteracion(pendientes[1].palabras, cols)} :
           /\ fila' = it.fila
           /\ codigo' = it.codigo
           /\ nombre' = it.nombre
           /\ valores_x' = it.valores_x
           /\ asignadas' = it.asignadas
           /\ registro' = it.registro
           /\ cuentas' = IF it.agrega THEN acumular(cuentas, it.codigo, it.nombre, it.registro) ELSE cuentas
           /\ aportado' = IF it.codigo # <<>> THEN sumar_aportes(aportado, it.codigo, it.valores_x, it.asignadas) ELSE aportado
           /\ retenido' = IF it.codigo # <<>> /\ fila_con_saldo(it.valores_x, it.asignadas)
                          THEN sumar_aportes(retenido, it.codigo, it.valores_x, it.asignadas) ELSE retenido
    /\ pendientes' = Tail(pendientes)
    /\ UNCHANGED <<fase, pagina, leidas, ancho, cols, varsRLI, varsEmp, varsLibro, varsPag, varsApp>>

\* _extraer_cuentas_pagina returns: its locals are gone.
CerrarPagina ==
    /\ fase = "pagina"
    /\ pendientes = <<>>
    /\ fase' = "entre"
    /\ ancho' = 0
    /\ cols' = dict_vacio
    /\ fila' = <<>>
    /\ codigo' = <<>>
    /\ nombre' = <<>>
    /\ valores_x' = <<>>
    /\ asignadas' = <<>>
    /\ registro' = dict_vacio
    /\ UNCHANGED <<cuentas, pagina, leidas, pendientes, aportado, retenido, varsRLI, varsEmp, varsLibro, varsPag, varsApp>>

\* The last page is done: extraer_balance returns cuentas.
Terminar ==
    /\ fase = "entre"
    /\ fase' = "fin"
    /\ UNCHANGED <<cuentas, pagina, leidas, ancho, cols, pendientes, fila, codigo, nombre, valores_x, asignadas, registro, aportado, retenido, varsRLI, varsEmp, varsLibro, varsPag, varsApp>>

Next == AbrirPagina \/ ProcesarFila \/ CerrarPagina \/ Terminar

(***************************************************************************)
(* The tax engine's specification: the arguments are any non-negative       *)
(* integers within the bounds, and either entry point is called once.       *)
(***************************************************************************)
Argumentos ==
    [ total_ingresos : 0..MaxIngresos,
      total_egresos : 0..MaxEgresos,
      total_gastos_rechazados : 0..MaxAjuste,
      ppm : 0..MaxPPM,
      retiros_ejercicio : 0..MaxAjuste,
      multas_hist : 0..MaxAjuste,
      idpc_hist : 0..MaxAjuste,
      uf_valor_pesos : 0..MaxUF ]

InitRLI ==
    /\ args \in Argumentos
    /\ modo = "ninguno"
    /\ r = ResultadoRLI
    /\ InitExt

LlamarSinIncentivo ==
    /\ modo = "ninguno"
    /\ modo' = "sin"
    /\ r' = calcular_sin_incentivo(args.total_ingresos, args.total_egresos,
                                   args.total_gastos_rechazados, args.ppm)
    /\ UNCHANGED <<args, varsExt, varsEmp, varsLibro, varsPag, varsApp>>

LlamarConIncentivo ==
    /\ modo = "ninguno"
    /\ modo' = "con"
    /\ r' = calcular_con_incentivo(args.total_ingresos, args.total_egresos,
                                   args.total_gastos_rechazados, args.ppm,
                                   args.retiros_ejercicio, args.multas_hist,
                                   args.idpc_hist, args.uf_valor_pesos)
    /\ UNCHANGED <<args, varsExt, varsEmp, varsLibro, varsPag, varsApp>>

NextRLI == LlamarSinIncentivo \/ LlamarConIncentivo

SpecRLI == InitRLI /\ [][NextRLI]_vars

\* The extraction run; the tax engine is not called during it.
Init ==
    /\ InitExt
    /\ args = [total_ingresos |-> 0, total_egresos |-> 0, total_gastos_rechazados |-> 0, ppm |-> 0, retiros_ejercicio |-> 0, multas_hist |-> 0, idpc_hist |-> 0, uf_valor_pesos |-> 0]
    /\ modo = "ninguno"
    /\ r = ResultadoRLI

Spec == Init /\ [][Next]_vars

(***************************************************************************)
(* The company data's specification: extraer_balance from the opening of    *)
(* the document, on documents whose pages hold no words, the text of page 1 *)
(* being any of TextosP1.  fase is "abierto" once the document is open,     *)
(* "texto" once the text of page 1 is read, "error" once the call raised,   *)
(* and then as in the loop over the pages.                                  *)
(***************************************************************************)
InitDoc ==
    /\ fase = "abierto"
    /\ InitCorrida
    /\ InitEmp
    /\ InitLibro
    /\ InitPag
    /\ InitApp
    /\ args = [total_ingresos |-> 0, total_egresos |-> 0, total_gastos_rechazados |-> 0, ppm |-> 0, retiros_ejercicio |-> 0, multas_hist |-> 0, idpc_hist |-> 0, uf_valor_pesos |-> 0]
    /\ modo = "ninguno"
    /\ r = ResultadoRLI

\* full_text_p1 = pdf.pages[0].extract_text() or "": pdf.pages is a list, and
\* pages[0] of a document without pages raises IndexError.
LeerPrimeraPagina ==
    /\ fase = "abierto"
    /\ \/ /\ excepcion' = TRUE
          /\ fase' = "error"
          /\ full_text_p1' = full_text_p1
       \/ /\ \E t \in TextosP1 \cup TextosAnclados : full_text_p1' = t
          /\ fase' = "texto"
          /\ excepcion' = excepcion
    /\ UNCHANGED <<cuentas, pagina, leidas, ancho, cols, pendientes, fila, codigo, nombre, valores_x, asignadas, registro, aportado, retenido, empresa, varsRLI, varsLibro, varsPag, varsApp>>

\* _extraer_datos_empresa(full_text_p1, empresa)
ExtraerDatosEmpresa ==
    /\ fase = "texto"
    /\ empresa' = _extraer_datos_empresa(full_text_p1, empresa)
    /\ fase' = "inicio"
    /\ UNCHANGED <<cuentas, pagina, leidas, ancho, cols, pendientes, fila, codigo, nombre, valores_x, asignadas, registro, aportado, retenido, full_text_p1, excepcion, varsRLI, varsLibro, varsPag, varsApp>>

\* extraer_balance hands the next page, which holds no words, to
\* _extraer_cuentas_pagina.
AbrirPaginaEnBlanco ==
    /\ fase \in {"inicio", "entre"}
    /\ pagina < MaxPaginas
    /\ \E f \in Formatos :
          \E a \in {abrir([width |-> f.width, words |-> <<>>])} :
              /\ ancho' = a.ancho
              /\ pendientes' = a.pendientes
              /\ cols' = a.cols
    /\ fase' = "pagina"
    /\ pagina' = pagina + 1
    /\ UNCHANGED <<leidas, fila, codigo, nombre, valores_x, asignadas, registro, cuentas, aportado, retenido, varsRLI, varsEmp, varsLibro, varsPag, varsApp>>

NextEmp == LeerPrimeraPagina \/ ExtraerDatosEmpresa \/ AbrirPaginaEnBlanco \/ CerrarPagina \/ Terminar

SpecEmp == InitDoc /\ [][NextEmp]_vars

(***************************************************************************)
(* One page through _extraer_cuentas_pagina, whatever the order in which    *)
(* extract_words hands its words: at most MaxFichas words on a page of      *)
(* width 100 without header, at the places of Posiciones and at tops that   *)
(* fall in two bands (10 in one, 11 and 13 in the next).                    *)
(***************************************************************************)
MaxFichas == 4

TopsSueltos == <<10, 11, 13>>
TextosSueltos == {T_110101, T_CAJA, T_1p5}
\* <<top, place>>: the left place at top 10, both places at tops 11 and 13.
LugaresSueltos == {<<1, 1>>, <<2, 1>>, <<2, 2>>, <<3, 1>>, <<3, 2>>}

\* The sequences of n different places.
RECURSIVE SecuenciasDeLugares(_)
SecuenciasDeLugares(n) ==
    IF n = 0 THEN {<<>>}
    ELSE UNION { {Append(s, l) : l \in LugaresSueltos \ {s[i] : i \in DOMAIN s}} : s \in SecuenciasDeLugares(n - 1) }

\* The words at the places s, in that order, with the texts f.
palabras_en(s, f) == [i \in DOMAIN s |-> Palabra(f[i], Posiciones[s[i][2]].x0, Posiciones[s[i][2]].x1, TopsSueltos[s[i][1]])]

\* The iterations of the loop over lineas_ordenadas, in order: the band of
\* each row and the locals of its iteration.
iteraciones(pend, c) == [i \in DOMAIN pend |-> [y |-> pend[i].y, it |-> iteracion(pend[i].palabras, c)]]

\* _extraer_cuentas_pagina on one page, from its words to the ledger.
ExtraerCuentasPagina ==
    /\ fase = "inicio"
    /\ pagina = 0
    /\ \E n \in 0..MaxFichas : \E s \in SecuenciasDeLugares(n) : \E f \in [1..n -> TextosSueltos] :
        \E ws \in {palabras_en(s, f)} : \E a \in {abrir([width |-> 100, words |-> ws])} :
           /\ page_words' = ws
           /\ procesadas' = iteraciones(a.pendientes, a.cols)
           /\ cuentas' = acumular_filas(filas_retenidas(a.pendientes, a.cols), cuentas)
    /\ fase' = "entre"
    /\ pagina' = 1
    /\ UNCHANGED <<leidas, ancho, cols, pendientes, fila, codigo, nombre, valores_x, asignadas, registro, aportado, retenido, varsRLI, varsEmp, varsLibro, varsApp>>

SpecPagina == Init /\ [][ExtraerCuentasPagina]_vars

(***************************************************************************)
(* The run on permuted pages: a document of two pages holding at most       *)
(* MaxPalabras body words in all is extracted as it is and with its pages   *)
(* swapped or the rows of a page in the opposite order.                     *)
(***************************************************************************)
\* What the pages of each body size hand to the ledger.
FilasDePaginas == [n \in 0..Cardinality(Lugares) |-> {filas_retenidas(a.pendientes, a.cols) : a \in PaginasAbiertas[n]}]

Documentos ==
    UNION { FilasDePaginas[n[1]] \X FilasDePaginas[n[2]] :
            n \in {m \in (0..Cardinality(Lugares)) \X (0..Cardinality(Lugares)) : m[1] + m[2] <= MaxPalabras} }

invertir(filas) == [i \in DOMAIN filas |-> filas[Len(filas) + 1 - i]]

\* The same pages in another order: swapped, or with the rows of a page
\* taken from the last to the first.
Permutaciones(d) == {<<d[2], d[1]>>, <<invertir(d[1]), d[2]>>, <<d[1], invertir(d[2])>>, <<invertir(d[2]), invertir(d[1])>>}

\* The loop of extraer_balance over the pages of a document.
extraer_cuentas(d) == acumular_filas(d[2], acumular_filas(d[1], dict_vacio))

ExtraerPermutado ==
    /\ fase = "inicio"
    /\ \E d \in Documentos :
          /\ documento' = d
          /\ cuentas' = extraer_cuentas(d)
          /\ \E p \in Permutaciones(d) : permutado' = extraer_cuentas(p)
    /\ fase' = "fin"
    /\ pagina' = 2
    /\ UNCHANGED <<leidas, ancho, cols, pendientes, fila, codigo, nombre, valores_x, asignadas, registro, aportado, retenido, consulta, varsRLI, varsEmp, varsPag, varsApp>>

SpecPerm == Init /\ [][ExtraerPermutado]_vars

(***************************************************************************)
(* The queries: get_valor is called on the ledger of any of the documents   *)
(* above, for a code and a column name or None.                             *)
(***************************************************************************)
Libros == {extraer_cuentas(d) : d \in Documentos}

InitConsulta ==
    /\ fase = "fin"
    /\ cuentas \in Libros
    /\ pagina = 2
    /\ leidas = 0
    /\ ancho = 0
    /\ cols = dict_vacio
    /\ pendientes = <<>>
    /\ fila = <<>>
    /\ codigo = <<>>
    /\ nombre = <<>>
    /\ valores_x = <<>>
    /\ asignadas = <<>>
    /\ registro = dict_vacio
    /\ aportado = dict_vacio
    /\ retenido = dict_vacio
    /\ InitEmp
    /\ InitLibro
    /\ InitPag
    /\ InitApp
    /\ args = [total_ingresos |-> 0, total_egresos |-> 0, total_gastos_rechazados |-> 0, ppm |-> 0, retiros_ejercicio |-> 0, multas_hist |-> 0, idpc_hist |-> 0, uf_valor_pesos |-> 0]
    /\ modo = "ninguno"
    /\ r = ResultadoRLI

Consultar ==
    /\ fase = "fin"
    /\ \E cod \in {T_110101, T_000000} :
          \E columna \in {columnas_numericas[i] : i \in DOMAIN columnas_numericas} \cup {None} :
              consulta' = [codigo |-> cod, columna |-> columna, valor |-> get_valor(cuentas, cod, columna)]
    /\ UNCHANGED <<cuentas, fase, pagina, leidas, ancho, cols, pendientes, fila, codigo, nombre, valores_x, asignadas, registro, aportado, retenido, documento, permutado, varsRLI, varsEmp, varsPag, varsApp>>

SpecConsulta == InitConsulta /\ [][Consultar]_vars

(***************************************************************************)
(* regimen_14d3.py: the line items of the three sections (names of the     *)
(* default accounts without their accents).                                *)
(***************************************************************************)
CUENTAS_INGRESOS_DEFAULT ==
    << [codigo |-> <<"3", "0", "0", "1", "0", "1">>, nombre |-> <<"I", "n", "g", "r", "e", "s", "o", "s", " ", "D", "e", "l", " ", "G", "i", "r", "o", " ", "P", "e", "r", "c", "i", "b", "i", "d", "o">>, signo |-> "+", f22 |-> "1600"],
       [codigo |-> <<"3", "1", "1", "1", "0", "2">>, nombre |-> <<"R", "e", "a", "j", "u", "s", "t", "e">>, signo |-> "+", f22 |-> "1588"] >>

CUENTAS_EGRESOS_DEFAULT ==
    << [codigo |-> <<"4", "0", "0", "1", "0", "1">>, nombre |-> <<"C", "o", "m", "p", "r", "a", "s", " ", "n", "e", "t", "a", "s", " ", "e", "x", "i", "s", "t", "e", "n", "c", "i", "a", "s">>, signo |-> "+", f22 |-> "1409"],
       [codigo |-> <<"4", "1", "0", "1", "0", "1">>, nombre |-> <<"R", "e", "m", "u", "n", "e", "r", "a", "c", "i", "o", "n", "e", "s", " ", "i", "m", "p", "o", "n", "i", "b", "l", "e", "s">>, signo |-> "+", f22 |-> ""],
       [codigo |-> <<"4", "1", "0", "1", "0", "2">>, nombre |-> <<"L", "e", "y", "e", "s", " ", "s", "o", "c", "i", "a", "l", "e", "s">>, signo |-> "+", f22 |-> ""],
       [codigo |-> <<"4", "1", "0", "1", "1", "0">>, nombre |-> <<"R", "e", "m", "u", "n", "e", "r", "a", "c", "i", "o", "n", "e", "s", " ", "n", "o", " ", "i", "m", "p", "o", "n", "i", "b", "l", "e", "s">>, signo |-> "+", f22 |-> ""],
       [codigo |-> <<"4", "1", "0", "1", "1", "1">>, nombre |-> <<"F", "i", "n", "i", "q", "u", "i", "t", "o", "s">>, signo |-> "+", f22 |-> ""],
       [codigo |-> <<"4", "1", "0", "1", "0", "6">>, nombre |-> <<"H", "o", "n", "o", "r", "a", "r", "i", "o", "s">>, signo |-> "+", f22 |-> "1412"],
       [codigo |-> <<"4", "1", "0", "1", "0", "5">>, nombre |-> <<"A", "r", "r", "i", "e", "n", "d", "o", "s">>, signo |-> "+", f22 |-> "1415"],
       [codigo |-> <<"4", "3", "0", "1", "0", "1">>, nombre |-> <<"I", "m", "p", "u", "e", "s", "t", "o", " ", "d", "e", " ", "P", "r", "i", "m", "e", "r", "a", " ", "C", "a", "t", "e", "g", "o", "r", "i", "a">>, signo |-> "+", f22 |-> "1422"],
       [codigo |-> <<"4", "3", "0", "1", "0", "2">>, nombre |-> <<"M", "u", "l", "t", "a", "s", " ", "e", " ", "I", "n", "t", "e", "r", "e", "s", "e", "s">>, signo |-> "+", f22 |-> "1422"] >>

CUENTAS_GASTOS_RECHAZADOS_DEFAULT ==
    << [codigo |-> <<"4", "3", "0", "1", "0", "1">>, nombre |-> <<"I", "m", "p", "u", "e", "s", "t", "o", " ", "d", "e", " ", "P", "r", "i", "m", "e", "r", "a", " ", "C", "a", "t", "e", "g", "o", "r", "i", "a">>, signo |-> "+", f22 |-> "1431"],
       [codigo |-> <<"4", "3", "0", "1", "0", "2">>, nombre |-> <<"M", "u", "l", "t", "a", "s", " ", "e", " ", "I", "n", "t", "e", "r", "e", "s", "e", "s">>, signo |-> "+", f22 |-> "1431"] >>

\* extractor.py: get_nombre and existe_cuenta.
get_nombre(cs, cod) == IF cod \in DOMAIN cs THEN cs[cod].cuenta ELSE <<>>

existe_cuenta(cs, cod) == cod \in DOMAIN cs

\* CuentaLinea of a default account d, read from column col.
linea_default(cuentas_balance, d, col) ==
    [codigo |-> d.codigo,
     nombre |-> IF get_nombre(cuentas_balance, d.codigo) # <<>> THEN get_nombre(cuentas_balance, d.codigo) ELSE d.nombre,
     monto |-> get_valor(cuentas_balance, d.codigo, col),
     signo |-> d.signo, f22 |-> d.f22, es_manual |-> FALSE,
     existe_en_balance |-> existe_cuenta(cuentas_balance, d.codigo)]

\* CuentaLinea of an extra e, read from column col unless it is manual.
linea_extra(cuentas_balance, e, col) ==
    [codigo |-> e.codigo,
     nombre |-> IF get_nombre(cuentas_balance, e.codigo) # <<>> THEN get_nombre(cuentas_balance, e.codigo) ELSE e.nombre,
     monto |-> IF ~e.es_manual THEN get_valor(cuentas_balance, e.codigo, col) ELSE e.monto,
     signo |-> e.signo, f22 |-> e.f22, es_manual |-> e.es_manual,
     existe_en_balance |-> existe_cuenta(cuentas_balance, e.codigo)]

construir_lineas_ingresos(cuentas_balance, extras) ==
    [i \in DOMAIN CUENTAS_INGRESOS_DEFAULT |-> linea_default(cuentas_balance, CUENTAS_INGRESOS_DEFAULT[i], "ganancias")]
    \o [i \in DOMAIN extras |-> linea_extra(cuentas_balance, extras[i], "ganancias")]

construir_lineas_egresos(cuentas_balance, extras) ==
    [i \in DOMAIN CUENTAS_EGRESOS_DEFAULT |->
        linea_default(cuentas_balance, CUENTAS_EGRESOS_DEFAULT[i],
                      IF CUENTAS_EGRESOS_DEFAULT[i].codigo = <<"1", "0", "1", "0", "9", "0">> THEN "activos" ELSE "perdidas")]
    \o [i \in DOMAIN extras |-> linea_extra(cuentas_balance, extras[i], "perdidas")]

construir_lineas_gastos_rechazados(cuentas_balance, extras) ==
    [i \in DOMAIN CUENTAS_GASTOS_RECHAZADOS_DEFAULT |-> linea_default(cuentas_balance, CUENTAS_GASTOS_RECHAZADOS_DEFAULT[i], "perdidas")]
    \o [i \in DOMAIN extras |-> linea_extra(cuentas_balance, extras[i], "perdidas")]

(***************************************************************************)
(* app.py: the uploaded files.  A file is the list of its pages, each with  *)
(* its width, words and text; extraer_balance either raises or returns the  *)
(* ledger and the company data.                                             *)
(***************************************************************************)
\* A file without pages: pdf.pages[0] raises IndexError.
PDF_SIN_PAGINAS == [pages |-> <<>>]

\* One page: Acme, its tax id, and the row 110101 CAJA 1.5.
PDF_ACME ==
    [pages |-> << [width |-> 100,
                   text |-> unir_lineas(<<L_CONCATENADA>>),
                   words |-> <<Palabra(T_110101, 4, 10, 10), Palabra(T_CAJA, 12, 20, 10), Palabra(T_1p5, 65, 69, 10)>>] >>]

\* Two pages: no tax id, the rows 000000 12345 and 110101 1.5.
PDF_DOS_PAGINAS ==
    [pages |-> << [width |-> 100,
                   text |-> unir_lineas(<<L_CASI_RUT>>),
                   words |-> <<Palabra(T_000000, 4, 10, 10), Palabra(T_12345, 65, 69, 10)>>],
                  [width |-> 100,
                   text |-> <<>>,
                   words |-> <<Palabra(T_110101, 4, 10, 13), Palabra(T_1p5, 65, 69, 13)>>] >>]

\* The files the user can upload, by name, and what pdfplumber.open gives.
Archivos == {"sin_paginas.pdf", "acme.pdf", "dos_paginas.pdf"}

pdfplumber_open(pdf_path) ==
    CASE pdf_path = "sin_paginas.pdf" -> PDF_SIN_PAGINAS
      [] pdf_path = "acme.pdf" -> PDF_ACME
      [] pdf_path = "dos_paginas.pdf" -> PDF_DOS_PAGINAS

\* The loop of extraer_balance over the pages.
RECURSIVE extraer_paginas(_, _)
filas_de_pagina(a) == filas_retenidas(a.pendientes, a.cols)

extraer_paginas(pages, cs) ==
    IF pages = <<>> THEN cs
    ELSE extraer_paginas(Tail(pages), acumular_filas(filas_de_pagina(abrir(pages[1])), cs))

\* extraer_balance(pdf_path): raises on a file without pages.
extraer_de(pdf) ==
    IF pdf.pages = <<>> THEN [raises |-> TRUE]
    ELSE [raises |-> FALSE,
          cuentas |-> extraer_paginas(pdf.pages, dict_vacio),
          empresa |-> _extraer_datos_empresa(pdf.pages[1].text, empresa_vacia)]

extraer_balance(pdf_path) == extraer_de(pdfplumber_open(pdf_path))

\* What extraer_balance gives for each file (computed once).
Extraccion == [f \in Archivos |-> extraer_balance(f)]

(***************************************************************************)
(* app.py: the script run.  Every interaction reruns main(): render_sidebar *)
(* with the file the uploader holds, then, once a balance is loaded, the    *)
(* sections and the calculation.  montos_editados is followed on the key of *)
(* the PPM input; the regimen stays "14 D N 3".                             *)
(***************************************************************************)
MaxExtras == 2

LISTAS == {"extras_ingresos", "extras_egresos", "extras_gastos", "extras_remuneraciones"}

key_ppm == "monto_ppm_101090_calc"

tmp_path == "tmp.pdf"

\* os.unlink(tmp_path)
os_unlink(archivos, path) == archivos \ {path}

\* render_sidebar, the upload: the file is written to a temporary file and
\* extracted; on success cuentas and empresa are replaced and
\* montos_editados is emptied, on an exception nothing is stored; the
\* temporary file is removed either way.
guardar_pierde_al_fallar(ss, x) ==
    IF x.raises THEN [ss EXCEPT !.cuentas = dict_vacio, !.empresa = dict_vacio]
    ELSE [ss EXCEPT !.cuentas = x.cuentas, !.empresa = x.empresa, !.montos_editados = dict_vacio]
guardar(ss, x) ==
    IF x.raises THEN ss
    ELSE [ss EXCEPT !.cuentas = x.cuentas, !.empresa = x.empresa, !.montos_editados = dict_vacio]

render_sidebar(ss, pdf_file) == IF pdf_file = None THEN ss ELSE guardar(ss, Extraccion[pdf_file])

archivos_tras_sidebar(archivos, pdf_file) ==
    IF pdf_file = None THEN archivos ELSE os_unlink(archivos \cup {tmp_path}, tmp_path)

\* _opciones_cuentas: the codes with a positive amount in a relevant column.
_opciones_cuentas(cs) == {cod \in DOMAIN cs : \E c \in cols_relevantes : get(cs[cod].montos, c) > 0}

\* _monto_desde_balance
_monto_desde_balance(cs, cod) == IF cod \in DOMAIN cs THEN primer_positivo(cs[cod].montos, ORDEN_SIN_COLUMNA) ELSE 0

codigos_ya(lista) == {lista[i].codigo : i \in DOMAIN lista}

\* The button "Confirmar y agregar" of _render_agregar_cuenta; the name
\* and the F22 code are left as the widget fills them.
confirmar_sin_revisar(lista, cod_sel, nom_sel, monto_final) ==
    Append(lista, [codigo |-> cod_sel, nombre |-> nom_sel, signo |-> "+", f22 |-> "", monto |-> monto_final, es_manual |-> TRUE])
confirmar(lista, cod_sel, nom_sel, monto_final) ==
    IF cod_sel \in codigos_ya(lista) THEN lista
    ELSE Append(lista, [codigo |-> cod_sel, nombre |-> nom_sel, signo |-> "+", f22 |-> "", monto |-> monto_final, es_manual |-> TRUE])

\* list.pop(idx)
pop(lista, idx) == SubSeq(lista, 1, idx - 1) \o SubSeq(lista, idx + 1, Len(lista))

\* render_calculo, the PPM input: the widget keeps its value, starts from
\* montos_editados or the balance, and is copied to montos_editados.
ppm_balance(cs) ==
    IF get_valor(cs, <<"1", "0", "1", "0", "9", "0">>, "activos") # 0 THEN get_valor(cs, <<"1", "0", "1", "0", "9", "0">>, "activos")
    ELSE get_valor(cs, <<"1", "0", "5", "1", "0", "1">>, "activos")

ppm_editado(ss) ==
    IF key_ppm \in DOMAIN ss THEN ss[key_ppm]
    ELSE IF key_ppm \in DOMAIN ss.montos_editados THEN ss.montos_editados[key_ppm]
    ELSE ppm_balance(ss.cuentas)

render_calculo_escribe_libro(ss) ==
    [poner(ss, key_ppm, ppm_editado(ss)) EXCEPT !.montos_editados = poner(@, key_ppm, ppm_editado(ss)),
                                                !.cuentas = poner(@, <<"1", "0", "1", "0", "9", "0">>, [cuenta |-> <<>>, montos |-> [activos |-> ppm_editado(ss)]])]
render_calculo(ss) ==
    [poner(ss, key_ppm, ppm_editado(ss)) EXCEPT !.montos_editados = poner(@, key_ppm, ppm_editado(ss))]

\* The three construir_lineas_* calls of the sections, and whether the add
\* widget showed "ya fue agregada a esta seccion".
lineas_de_secciones(ss, aviso) ==
    [ingresos |-> construir_lineas_ingresos(ss.cuentas, ss.extras_ingresos),
     egresos |-> construir_lineas_egresos(ss.cuentas, ss.extras_egresos),
     gastos |-> construir_lineas_gastos_rechazados(ss.cuentas, ss.extras_gastos),
     aviso_ya_agregada |-> aviso]


\* main() after render_sidebar, the interaction already applied to ss:
\* without company data it returns at once.
\* not d, for a dict d
vacio(d) == DOMAIN d = {}

cuerpo_de_main(ss) == IF vacio(ss.empresa) THEN ss ELSE render_calculo(ss)

TotalExtras(ss) == Len(ss.extras_ingresos) + Len(ss.extras_egresos) + Len(ss.extras_gastos) + Len(ss.extras_remuneraciones)

\* The user puts a file in the uploader: the script reruns and
\* render_sidebar handles it.
Subir ==
    /\ etapa = "espera"
    /\ \E f \in Archivos :
          /\ pdf_upload' = f
          /\ session_state' = render_sidebar(session_state, f)
          /\ archivos_tmp' = archivos_tras_sidebar(archivos_tmp, f)
    /\ etapa' = "cuerpo"
    /\ UNCHANGED <<lineas_app, varsRLI, varsExt, varsEmp, varsLibro, varsPag>>

\* The rest of that script run.
Cuerpo ==
    /\ etapa = "cuerpo"
    /\ session_state' = cuerpo_de_main(session_state)
    /\ lineas_app' = IF vacio(session_state.empresa) THEN lineas_app ELSE lineas_de_secciones(session_state, FALSE)
    /\ etapa' = "espera"
    /\ UNCHANGED <<pdf_upload, archivos_tmp, varsRLI, varsExt, varsEmp, varsLibro, varsPag>>

\* The user clears the uploader.
Quitar ==
    /\ etapa = "espera"
    /\ pdf_upload # None
    /\ pdf_upload' = None
    /\ session_state' = cuerpo_de_main(session_state)
    /\ lineas_app' = IF vacio(session_state.empresa) THEN lineas_app ELSE lineas_de_secciones(session_state, FALSE)
    /\ UNCHANGED <<archivos_tmp, etapa, varsRLI, varsExt, varsEmp, varsLibro, varsPag>>

\* The interactions below rerun the script: ss is st.session_state once
\* render_sidebar has run in that rerun.

\* The user picks an account in the widget of a section and presses
\* "Confirmar y agregar", with the amount of the balance or 0 typed over it.
ConfirmarYAgregar(ss) ==
    /\ TotalExtras(ss) < MaxExtras
    /\ \E lista_key \in LISTAS : \E cod_sel \in _opciones_cuentas(ss.cuentas) :
          \E monto_final \in {0, _monto_desde_balance(ss.cuentas, cod_sel)} :
              \E ss2 \in {[ss EXCEPT ![lista_key] = confirmar(@, cod_sel, ss.cuentas[cod_sel].cuenta, monto_final)]} :
                  /\ session_state' = cuerpo_de_main(ss2)
                  /\ lineas_app' = lineas_de_secciones(ss2, cod_sel \in codigos_ya(ss[lista_key]))

\* The user presses the delete button of a manual extra.
EliminarExtra(ss) ==
    \E lista_key \in LISTAS : \E idx \in DOMAIN ss[lista_key] :
        \E ss2 \in {[ss EXCEPT ![lista_key] = pop(@, idx)]} :
            /\ session_state' = cuerpo_de_main(ss2)
            /\ lineas_app' = lineas_de_secciones(ss2, FALSE)

\* The user types an amount in the PPM input.
EditarMonto(ss) ==
    \E tecleado \in {0, 1} :
        /\ session_state' = cuerpo_de_main(poner(ss, key_ppm, tecleado))
        /\ lineas_app' = lineas_de_secciones(ss, FALSE)

\* The user presses one of the two mode buttons.
CambiarModo(ss) ==
    \E m \in {"sin", "con"} :
        /\ session_state' = cuerpo_de_main([ss EXCEPT !.modo_calculo = m])
        /\ lineas_app' = lineas_de_secciones(ss, FALSE)

\* One script run started by an interaction with the sections of a loaded
\* balance: render_sidebar with the file the uploader holds, then the body
\* with the interaction.
Interactuar ==
    /\ etapa = "espera"
    /\ \E ss \in {render_sidebar(session_state, pdf_upload)} :
          /\ ~vacio(ss.empresa)
          /\ \/ ConfirmarYAgregar(ss)
             \/ EliminarExtra(ss)
             \/ EditarMonto(ss)
             \/ CambiarModo(ss)
    /\ archivos_tmp' = archivos_tras_sidebar(archivos_tmp, pdf_upload)
    /\ UNCHANGED <<pdf_upload, etapa, varsRLI, varsExt, varsEmp, varsLibro, varsPag>>

NextApp == Subir \/ Cuerpo \/ Quitar \/ Interactuar

SpecApp == Init /\ [][NextApp]_vars

(***************************************************************************)
(* Properties of the application (checked under SpecApp)                    *)
(***************************************************************************)
\* d1 == d2 for two dicts, one of which may be empty.
mismo(d1, d2) == DOMAIN d1 = DOMAIN d2 /\ \A k \in DOMAIN d1 : d1[k] = d2[k]

\* The step is the script run that handles a file put in the uploader.
PasoSubir == etapa = "espera" /\ etapa' = "cuerpo"

\* C24: once loaded, the ledger and the company data are changed by no
\* script run other than the one of a new upload whose extraction
\* succeeds: building the line items, adding or deleting a manual extra,
\* editing an amount and switching the mode leave both as they were.
C24_SoloLaCargaReemplaza ==
    [][(~mismo(session_state'.cuentas, session_state.cuentas) \/ ~mismo(session_state'.empresa, session_state.empresa))
         => (PasoSubir /\ ~Extraccion[pdf_upload'].raises)]_vars

\* A balance is loaded, an extra was added, the PPM was edited, the mode
\* switched and the sections rendered, the uploader emptied.
C24_Witness ==
    /\ ~vacio(session_state.cuentas)
    /\ pdf_upload = None
    /\ Len(session_state.extras_egresos) = 1
    /\ session_state.modo_calculo = "con"
    /\ key_ppm \in DOMAIN session_state.montos_editados /\ session_state.montos_editados[key_ppm] = 1
    /\ Len(lineas_app.egresos) = Len(CUENTAS_EGRESOS_DEFAULT) + 1

SinRepetidos(lista) == \A i, j \in DOMAIN lista : lista[i].codigo = lista[j].codigo => i = j

EntradaManual(e) == e.es_manual = TRUE /\ e.signo = "+" /\ e.monto \in Nat

\* C29: an extras list never holds two entries with the same code;
\* confirming a code the list holds leaves every list as it was; a list
\* grows only by one entry at its end, whose code it did not hold, and
\* every entry is manual, of sign '+', with a non-negative integer amount.
C29_ExtrasSinRepetir ==
    [][\A k \in LISTAS :
          /\ SinRepetidos(session_state'[k])
          /\ \A i \in DOMAIN session_state'[k] : EntradaManual(session_state'[k][i])
          /\ lineas_app'.aviso_ya_agregada => session_state'[k] = session_state[k]
          /\ Len(session_state'[k]) >= Len(session_state[k])
               => \/ session_state'[k] = session_state[k]
                  \/ /\ Len(session_state'[k]) = Len(session_state[k]) + 1
                     /\ SubSeq(session_state'[k], 1, Len(session_state[k])) = session_state[k]
                     /\ session_state'[k][Len(session_state'[k])].codigo \notin codigos_ya(session_state[k])]_vars

\* A code the list holds was confirmed again: the warning is shown and the
\* list holds its one entry.
C29_Witness ==
    /\ lineas_app.aviso_ya_agregada
    /\ Len(session_state.extras_ingresos) = 1
    /\ session_state.extras_ingresos[1].codigo = T_110101
    /\ session_state.extras_ingresos[1].monto = 15

ExtrasYModoIguales ==
    /\ \A k \in LISTAS : session_state'[k] = session_state[k]
    /\ session_state'.modo_calculo = session_state.modo_calculo

\* C30: in the script run of an upload, if extraer_balance raises, the
\* ledger, the company data and the edited amounts keep their values; if
\* it returns, the ledger and the company data are what it returned and
\* the edited amounts are empty; either way the extras lists and the mode
\* are unchanged and the temporary file is gone.
C30_Carga ==
    [][PasoSubir =>
         /\ ExtrasYModoIguales
         /\ tmp_path \notin archivos_tmp'
         /\ IF Extraccion[pdf_upload'].raises
            THEN /\ mismo(session_state'.cuentas, session_state.cuentas)
                 /\ mismo(session_state'.empresa, session_state.empresa)
                 /\ mismo(session_state'.montos_editados, session_state.montos_editados)
            ELSE /\ mismo(session_state'.cuentas, Extraccion[pdf_upload'].cuentas)
                 /\ mismo(session_state'.empresa, Extraccion[pdf_upload'].empresa)
                 /\ vacio(session_state'.montos_editados)]_vars

\* A file without pages was uploaded over a loaded balance with an edited
\* amount and an extra: all are still there.
C30_Witness ==
    /\ etapa = "cuerpo"
    /\ pdf_upload = "sin_paginas.pdf"
    /\ DOMAIN session_state.cuentas = {T_110101}
    /\ session_state.empresa.rut # <<>>
    /\ key_ppm \in DOMAIN session_state.montos_editados
    /\ Len(session_state.extras_gastos) = 1
    /\ archivos_tmp = {}

(***************************************************************************)
(* Properties of the tax engine (checked under SpecRLI).                    *)
(***************************************************************************)
\* q is x / den with the fractional part dropped (rounded toward zero).
TruncaHaciaCero(q, x, den) ==
    /\ den * abs(q) <= abs(x)
    /\ abs(x) < den * abs(q) + den
    /\ (q > 0 => x > 0)
    /\ (q < 0 => x < 0)

\* C1: calcular_sin_incentivo returns base_imponible = ingresos - egresos +
\* gastos rechazados and saldo = IDPC - PPM (of either sign), and echoes its
\* four arguments in the result.
C1_SinIncentivoFormula ==
    modo = "sin" =>
        /\ r.base_imponible =
               args.total_ingresos - args.total_egresos + args.total_gastos_rechazados
        /\ r.saldo_sin_incentivo = r.idpc_sin_incentivo - args.ppm
        /\ r.total_ingresos = args.total_ingresos
        /\ r.total_egresos = args.total_egresos
        /\ r.total_gastos_rechazados = args.total_gastos_rechazados
        /\ r.ppm = args.ppm

C1_Witness ==
    /\ modo = "sin"
    /\ args.total_gastos_rechazados > 0
    /\ args.total_egresos > 0
    /\ r.idpc_sin_incentivo > 0
    /\ r.saldo_sin_incentivo < 0

\* C2 as stated: IDPC is the floor of base_imponible / 8, also for a negative
\* base.
C2_Original ==
    modo = "sin" => r.idpc_sin_incentivo = r.base_imponible \div TASA_IDPC_DEN

\* C2 amended: IDPC is base_imponible / 8 rounded toward zero; it is the floor
\* when the base is not negative.
C2_IdpcTruncaHaciaCero ==
    modo = "sin" =>
        /\ TruncaHaciaCero(r.idpc_sin_incentivo, r.base_imponible, TASA_IDPC_DEN)
        /\ (r.base_imponible >= 0 =>
                r.idpc_sin_incentivo = r.base_imponible \div TASA_IDPC_DEN)

C2_Witness ==
    /\ modo = "sin"
    /\ r.base_imponible < -TASA_IDPC_DEN
    /\ r.base_imponible % TASA_IDPC_DEN # 0
    /\ r.idpc_sin_incentivo = -1

\* C3: calcular_con_incentivo returns sub base = ingresos - egresos + gastos
\* rechazados, RLI invertida = sub base - retiros - multas - IDPC historico
\* (not clamped), deduccion = max(min(50% RLI, limite UF), 0), IDPC =
\* floor(deduccion / 8) and saldo = IDPC - PPM; a negative RLI invertida gives
\* deduccion = 0 and IDPC = 0.
C3_ConIncentivoFormula ==
    modo = "con" =>
        LET tope == IF args.uf_valor_pesos < r.porcentaje_rli
                    THEN args.uf_valor_pesos ELSE r.porcentaje_rli
        IN  /\ r.sub_total_base =
                   args.total_ingresos - args.total_egresos + args.total_gastos_rechazados
            /\ r.rli_invertida =
                   r.sub_total_base - args.retiros_ejercicio - args.multas_hist
                   - args.idpc_hist
            /\ r.deduccion_incentivo = (IF tope > 0 THEN tope ELSE 0)
            /\ r.idpc_con_incentivo = r.deduccion_incentivo \div TASA_IDPC_DEN
            /\ r.saldo_con_incentivo = r.idpc_con_incentivo - args.ppm
            /\ (r.rli_invertida < 0 =>
                    r.deduccion_incentivo = 0 /\ r.idpc_con_incentivo = 0)

C3_Witness ==
    /\ modo = "con"
    /\ r.sub_total_base > 0
    /\ r.rli_invertida < 0
    /\ args.uf_valor_pesos > 0
    /\ r.deduccion_incentivo = 0

\* C4 as stated: porcentaje_rli is the floor of rli_invertida / 2 for every
\* integer rli_invertida, negative and odd ones included.
C4_Original ==
    modo = "con" => r.porcentaje_rli = r.rli_invertida \div MITAD_DEN

\* C4 amended: porcentaje_rli is rli_invertida / 2 rounded toward zero; it is
\* the floor when rli_invertida is not negative or is even.
C4_PorcentajeTruncaHaciaCero ==
    modo = "con" =>
        /\ TruncaHaciaCero(r.porcentaje_rli, r.rli_invertida, MITAD_DEN)
        /\ (r.rli_invertida >= 0 \/ r.rli_invertida % MITAD_DEN = 0 =>
                r.porcentaje_rli = r.rli_invertida \div MITAD_DEN)

C4_Witness ==
    /\ modo = "con"
    /\ r.rli_invertida = -3
    /\ r.porcentaje_rli = -1

\* C5: the result of a call leaves every field of the other mode at its
\* default 0.
C5_CamposDelOtroModoEnCero ==
    /\ modo = "sin" =>
           /\ r.sub_total_base = 0
           /\ r.retiros_ejercicio = 0
           /\ r.multas_intereses_hist = 0
           /\ r.idpc_hist = 0
           /\ r.rli_invertida = 0
           /\ r.deduccion_incentivo = 0
           /\ r.porcentaje_rli = 0
           /\ r.uf_limite = 0
           /\ r.idpc_con_incentivo = 0
           /\ r.saldo_con_incentivo = 0
    /\ modo = "con" =>
           /\ r.base_imponible = 0
           /\ r.idpc_sin_incentivo = 0
           /\ r.saldo_sin_incentivo = 0

C5_Witness ==
    /\ modo = "sin"
    /\ r.base_imponible > 0
    /\ r.idpc_sin_incentivo > 0
    /\ args.retiros_ejercicio > 0
    /\ args.uf_valor_pesos > 0

\* The tax calcular_sin_incentivo gives for the first three arguments of
\* the call at hand.
IdpcSinIncentivoDe(a) ==
    calcular_sin_incentivo(a.total_ingresos, a.total_egresos, a.total_gastos_rechazados, a.ppm).idpc_sin_incentivo

\* C28 as stated: for the same income, expenses and disallowed expenses,
\* idpc_con_incentivo never exceeds idpc_sin_incentivo.
C28_Original ==
    modo = "con" => r.idpc_con_incentivo <= IdpcSinIncentivoDe(args)

\* C28 amended: idpc_con_incentivo never exceeds idpc_sin_incentivo when
\* the base income - expenses + disallowed expenses is not negative; when
\* it is negative idpc_con_incentivo is 0 and idpc_sin_incentivo is 0 or
\* less.
C28_NoSuperaSalvoPerdida ==
    modo = "con" =>
        /\ r.sub_total_base >= 0 => r.idpc_con_incentivo <= IdpcSinIncentivoDe(args)
        /\ r.sub_total_base < 0 => (r.idpc_con_incentivo = 0 /\ IdpcSinIncentivoDe(args) <= 0)

\* A call in which the limit caps the deduction: the tax is 1 with the
\* incentive and 2 without.
C28_Witness ==
    /\ modo = "con"
    /\ r.sub_total_base = 20
    /\ r.deduccion_incentivo = 9
    /\ r.porcentaje_rli = 10
    /\ r.idpc_con_incentivo = 1
    /\ IdpcSinIncentivoDe(args) = 2

(***************************************************************************)
(* Properties of the extraction run (checked under Spec).                   *)
(***************************************************************************)
ColumnasNumericas == {columnas_numericas[i] : i \in DOMAIN columnas_numericas}

CodigosDe(h) == {p[1] : p \in DOMAIN h}

\* The amount the ledger holds for a code and a column, 0 when it holds none.
Monto(c, k) == IF c \in DOMAIN cuentas THEN get(cuentas[c].montos, k) ELSE 0

\* C6 as stated: the ledger's amount for a code and a column is the sum of
\* what all the rows carrying the code put in that column.
C6_Original ==
    \A c \in DOMAIN cuentas : \A k \in ColumnasNumericas : Monto(c, k) = get(aportado, <<c, k>>)

\* C6 amended: the ledger's amount for a code and a column is the sum of what
\* the rows carrying the code put in that column, over the rows in which some
\* balance-relevant column received a positive value; the other rows of the
\* code add nothing, and the ledger holds numeric columns only.
C6_SumaDeFilasConSaldo ==
    /\ \A c \in DOMAIN cuentas \cup CodigosDe(retenido) : \A k \in ColumnasNumericas : Monto(c, k) = get(retenido, <<c, k>>)
    /\ \A c \in DOMAIN cuentas : DOMAIN cuentas[c].montos \subseteq ColumnasNumericas

C6_Witness ==
    /\ pagina = 2
    /\ T_110101 \in DOMAIN cuentas
    /\ Monto(T_110101, "activos") = 110116
    /\ Monto(T_110101, "debitos") = 110101
    /\ get(aportado, <<T_110101, "debitos">>) = 220202

\* C7: a code is in the ledger only if one of the six balance-relevant
\* columns received a positive value for it; a code whose rows only put
\* values in debitos or creditos is absent.
C7_SoloCuentasConSaldo ==
    /\ \A c \in DOMAIN cuentas : \E k \in cols_relevantes : Monto(c, k) > 0 /\ get(aportado, <<c, k>>) > 0
    /\ \A c \in CodigosDe(aportado) : (\A k \in cols_relevantes : get(aportado, <<c, k>>) = 0) => c \notin DOMAIN cuentas

C7_Witness ==
    /\ fase = "fin"
    /\ get(aportado, <<T_110101, "debitos">>) > 0
    /\ T_110101 \notin DOMAIN cuentas
    /\ T_000000 \in DOMAIN cuentas

\* The row the loop is about to handle has a code and every numeric word of
\* it (the code included, which is numeric too) has value 0.
FilaConCodigoYSoloCeros ==
    /\ fase = "pagina"
    /\ pendientes # <<>>
    /\ \E i \in DOMAIN pendientes[1].palabras : _CODIGO_PATTERN(pendientes[1].palabras[i].text)
    /\ \A i \in DOMAIN pendientes[1].palabras : patron_numerico(pendientes[1].palabras[i].text) => _fmt_numero(pendientes[1].palabras[i].text) = 0

C9_ClavesDeSeisDigitos ==
    \A c \in DOMAIN cuentas : Len(c) = 6 /\ \A i \in 1..6 : c[i] \in {"0", "1", "2", "3", "4", "5", "6", "7", "8", "9"}

C9_Witness ==
    /\ fase = "pagina"
    /\ codigo = T_110101
    /\ Len(fila) = 2
    /\ fila[1].text = T_12345
    /\ fila[2].text = T_110101
    /\ DOMAIN cuentas = {T_110101}

\* The sum of the positive values of valores_x that went to column k.
RECURSIVE SumaAsignada(_, _)
SumaAsignada(k, n) ==
    IF n = 0 THEN 0
    ELSE SumaAsignada(k, n - 1) + (IF asignadas[n] = k /\ valores_x[n].valor > 0 THEN valores_x[n].valor ELSE 0)

\* C10: every value word with a positive value goes to a numeric column of
\* the page's columns whose center is at minimal distance from the word's
\* center, never to a column farther than another numeric one nor to the
\* codigo / cuenta anchors, and registro holds it under that column.
C10_ColumnaMasCercana ==
    (fase = "pagina" /\ codigo # <<>>) =>
        /\ \A i \in DOMAIN valores_x :
              valores_x[i].valor > 0 =>
                  /\ asignadas[i] \in ColumnasNumericas \cap DOMAIN cols
                  /\ \A k \in ColumnasNumericas \cap DOMAIN cols : abs(cols[asignadas[i]] - valores_x[i].x) <= abs(cols[k] - valores_x[i].x)
                  /\ asignadas[i] \in DOMAIN registro
        /\ \A k \in DOMAIN registro : k \in ColumnasNumericas /\ registro[k] = SumaAsignada(k, Len(valores_x))

C10_Witness ==
    /\ fase = "pagina"
    /\ codigo # <<>>
    /\ "codigo" \in DOMAIN cols
    /\ \E i \in DOMAIN valores_x :
          /\ valores_x[i].valor > 0
          /\ asignadas[i] = "debitos"
          /\ abs(cols["codigo"] - valores_x[i].x) < abs(cols["debitos"] - valores_x[i].x)
    /\ \E i \in DOMAIN valores_x : valores_x[i].valor > 0 /\ asignadas[i] = "pasivos"

\* The numeric columns of the page at minimal distance from value word i.
Empatadas(i) ==
    {k \in ColumnasNumericas \cap DOMAIN cols :
        \A j \in ColumnasNumericas \cap DOMAIN cols : abs(cols[k] - valores_x[i].x) <= abs(cols[j] - valores_x[i].x)}

\* The first name of the sequence orden that is in S.
PrimeraEn(orden, S) == orden[CHOOSE j \in DOMAIN orden : orden[j] \in S /\ \A l \in 1..(j - 1) : orden[l] \notin S]

\* The names of the numeric columns in lexicographic order.
OrdenLexicografico == <<"activos", "creditos", "debitos", "ganancias", "pasivos", "perdidas", "saldo_acreedor", "saldo_deudor">>

\* C11 as stated: a value word equidistant from several nearest numeric
\* columns goes to the lexicographically first of their names.
C11_Original ==
    (fase = "pagina" /\ codigo # <<>>) =>
        \A i \in DOMAIN asignadas : asignadas[i] = PrimeraEn(OrdenLexicografico, Empatadas(i))

\* C11 amended: a value word equidistant from several nearest numeric columns
\* goes to the one that comes first in the order of columnas_numericas
\* (debitos, creditos, saldo_deudor, saldo_acreedor, activos, pasivos,
\* perdidas, ganancias), and registro holds its positive value there.
C11_PrimeraEnOrdenDeColumnas ==
    (fase = "pagina" /\ codigo # <<>>) =>
        \A i \in DOMAIN asignadas :
            /\ asignadas[i] = PrimeraEn(columnas_numericas, Empatadas(i))
            /\ valores_x[i].valor > 0 => get(registro, asignadas[i]) >= valores_x[i].valor

C11_Witness ==
    /\ fase = "pagina"
    /\ codigo = T_110101
    /\ \E i \in DOMAIN asignadas :
          /\ Empatadas(i) = {"perdidas", "ganancias"}
          /\ valores_x[i].valor > 0
          /\ asignadas[i] = "perdidas"
    /\ Monto(T_110101, "perdidas") > 0
    /\ Monto(T_110101, "ganancias") = 0

\* _extraer_cuentas_pagina has set the page's columns and has not handled a
\* row yet: pendientes holds every word of the page.
RecienAbierta == fase = "pagina" /\ fila = <<>> /\ pendientes # <<>>

\* The words of the page just opened, each with its uppercased text.
EtiquetasDePagina ==
    UNION {{<<upper(pendientes[i].palabras[j].text), pendientes[i].palabras[j]>> : j \in DOMAIN pendientes[i].palabras} : i \in DOMAIN pendientes}

\* The labels of the 8 numeric columns.
EtiquetasNumericas == {T_DEBITOS, T_CREDITOS, T_DEUDOR, T_ACREEDOR, T_ACTIVOS, T_PASIVOS, T_PERDIDAS, T_GANANCIAS}

\* C12: on a page holding exactly one header word for each of the 8 numeric
\* labels (whatever its case), the page's columns give each of the 8 numeric
\* columns the midpoint of its header word; the proportional estimate is not
\* what the page uses.
C12_EncabezadoCompletoDaLosCentros ==
    RecienAbierta =>
        \A U \in {EtiquetasDePagina} :
            (\A t \in EtiquetasNumericas : Cardinality({u \in U : u[1] = t}) = 1) =>
                /\ ColumnasNumericas \subseteq DOMAIN cols
                /\ \A u \in U : u[1] \in EtiquetasNumericas => cols[clave_de_etiqueta(u[1])] = u[2].x0 + u[2].x1

C12_Witness ==
    /\ RecienAbierta
    /\ \A t \in EtiquetasNumericas : Cardinality({u \in EtiquetasDePagina : u[1] = t}) = 1
    /\ Len(pendientes) = 3
    /\ cols["pasivos"] = 132
    /\ cols["pasivos"] # _estimar_columnas_por_posicion(ancho)["pasivos"]

\* C13: a page with words on which fewer than 4 of the 8 numeric labels are
\* matched uses the 8 proportional centers of its width and nothing else,
\* whether or not the CODIGO / CUENTA anchors were matched.
C13_Original ==
    RecienAbierta =>
        \A U \in {EtiquetasDePagina} :
            Cardinality({t \in EtiquetasNumericas : \E u \in U : u[1] = t}) < 4 => cols = _estimar_columnas_por_posicion(ancho)

(***************************************************************************)
(* Properties of the company data (checked under SpecEmp).                  *)
(***************************************************************************)
\* _extraer_datos_empresa has returned.
Analizado == fase \in {"inicio", "pagina", "entre", "fin"}

\* C14 as stated: on a document that yields no text token at all (no word
\* on any page, only white space or nothing as text of page 1, a document
\* without pages included) extraer_balance does not raise and returns an
\* empty ledger and six empty company fields.
C14_Original ==
    (fase \in {"fin", "error"} /\ \A i \in DOMAIN full_text_p1 : full_text_p1[i] \in BLANCOS) =>
        /\ ~excepcion
        /\ cuentas = dict_vacio
        /\ empresa = empresa_vacia

\* The position at which the leftmost tax id of a line starts, 0 when the
\* line holds none.
PosRut(l) ==
    LET donde == {i \in DOMAIN l : _RUT_PATTERN_en(l, i) # 0}
    IN  IF donde = {} THEN 0 ELSE CHOOSE a \in donde : \A c \in donde : a <= c

\* Where the tax id starts in each of the first 15 non-empty lines.
PosRutPrimeras(ls) == [i \in 1..(IF Len(ls) < 15 THEN Len(ls) ELSE 15) |-> PosRut(ls[i])]

\* Line i is the first of them to hold a tax id.
PrimeraConRut(pos, i) ==
    /\ i \in DOMAIN pos
    /\ pos[i] # 0
    /\ \A j \in 1..(i - 1) : pos[j] = 0

\* C15: when none of the first 15 non-empty lines of the text of page 1
\* holds a tax id, even if a later line does, razon_social is the first
\* non-empty line (trimmed; empty when there is no such line) and rut,
\* giro, direccion and comuna stay empty.
C15_SinRutEnLasPrimerasLineas ==
    Analizado =>
        \A ls \in {lineas_de(full_text_p1)} :
            (\A i \in 1..(IF Len(ls) < 15 THEN Len(ls) ELSE 15) : PosRut(ls[i]) = 0) =>
                /\ empresa.razon_social = (IF ls = <<>> THEN <<>> ELSE ls[1])
                /\ empresa.rut = <<>>
                /\ empresa.giro = <<>>
                /\ empresa.direccion = <<>>
                /\ empresa.comuna = <<>>

C15_Witness ==
    /\ Analizado
    /\ \E ls \in {lineas_de(full_text_p1)} :
          /\ Len(ls) >= 16
          /\ \A i \in 1..15 : PosRut(ls[i]) = 0
          /\ PosRut(ls[16]) # 0
    /\ empresa.razon_social = L_RELLENO
    /\ empresa.rut = <<>>

\* C16: when the first tax id found in the first 15 non-empty lines starts
\* after the beginning of its line, razon_social is the trimmed text of that
\* line before the tax id, whatever the line before holds, and rut is the
\* matched text.
C16_RutAMitadDeLinea ==
    Analizado =>
        \A ls \in {lineas_de(full_text_p1)} :
            \A pos \in {PosRutPrimeras(ls)} :
                \A i \in DOMAIN pos :
                    (PrimeraConRut(pos, i) /\ pos[i] > 1) =>
                        /\ empresa.razon_social = strip(SubSeq(ls[i], 1, pos[i] - 1))
                        /\ empresa.rut = SubSeq(ls[i], pos[i], _RUT_PATTERN_en(ls[i], pos[i]))

C16_Witness ==
    /\ Analizado
    /\ \E ls \in {lineas_de(full_text_p1)} :
          /\ Len(ls) >= 2
          /\ ls[1] = L_CASI_RUT
          /\ PrimeraConRut(PosRutPrimeras(ls), 2)
          /\ PosRut(ls[2]) = 6
    /\ empresa.razon_social = <<"A", "c", "m", "e">>
    /\ empresa.rut = L_RUT

\* C17 as stated: when the tax id starts after the beginning of its line
\* and what follows it on the line holds no address keyword, giro is that
\* suffix (the text after the tax id, without razon_social and rut), and
\* direccion and comuna do not come from that line.
C17_Original ==
    Analizado =>
        \A ls \in {lineas_de(full_text_p1)} :
            \A pos \in {PosRutPrimeras(ls)} :
                \A i \in DOMAIN pos :
                    (PrimeraConRut(pos, i) /\ pos[i] > 1) =>
                        \A sufijo \in {SubSeq(ls[i], _RUT_PATTERN_en(ls[i], pos[i]) + 1, Len(ls[i]))} :
                            /\ empresa.giro \in {sufijo, strip(sufijo)}
                            /\ empresa.direccion \in {<<>>} \cup {ls[j] : j \in (i + 1)..Len(ls)}
                            /\ empresa.comuna \in {<<>>} \cup {ls[j] : j \in (i + 1)..Len(ls)}

\* The line holds BALANCE or DESDE, in any letter case.
ConPalabraDeCorte(l) == contiene(upper(l), P_BALANCE) \/ contiene(upper(l), P_DESDE)

\* The first line after line i that holds BALANCE or DESDE, Len(ls) + 1
\* when there is none.
Corte(ls, i) ==
    LET donde == {j \in (i + 1)..Len(ls) : ConPalabraDeCorte(ls[j])}
    IN  IF donde = {} THEN Len(ls) + 1 ELSE CHOOSE a \in donde : \A b \in donde : a <= b

\* Line k when it comes before the line that ends the scan, else empty.
CampoEn(ls, k, corte) == IF k < corte THEN ls[k] ELSE <<>>

\* C25: when the first tax id of the first 15 non-empty lines starts at the
\* beginning of line i, i not being the first line, razon_social is line
\* i-1; if lines i+1, i+2, i+3 exist and none holds BALANCE or DESDE (in any
\* letter case), giro, direccion and comuna are those three lines; if one
\* of them holds BALANCE or DESDE, the scan ends there: the fields of the
\* lines before it are filled and the others stay empty.
C25_LineasTrasElRut ==
    Analizado =>
        \A ls \in {lineas_de(full_text_p1)} :
            \A pos \in {PosRutPrimeras(ls)} :
                \A i \in DOMAIN pos :
                    (PrimeraConRut(pos, i) /\ pos[i] = 1 /\ i > 1) =>
                        \A corte \in {Corte(ls, i)} :
                            (Len(ls) >= i + 3 \/ corte <= i + 3) =>
                                /\ empresa.razon_social = ls[i - 1]
                                /\ empresa.giro = CampoEn(ls, i + 1, corte)
                                /\ empresa.direccion = CampoEn(ls, i + 2, corte)
                                /\ empresa.comuna = CampoEn(ls, i + 3, corte)

\* A filler line, the tax id, then Giro, Av 1-2 and Maipu.
C25_Witness ==
    /\ Analizado
    /\ lineas_de(full_text_p1) = <<L_RELLENO, L_RUT, L_GIRO, L_CASI_RUT, L_COMUNA>>
    /\ empresa.razon_social = L_RELLENO
    /\ empresa.giro = L_GIRO
    /\ empresa.direccion = L_CASI_RUT
    /\ empresa.comuna = L_COMUNA

(***************************************************************************)
(* Property of the code of a row (checked under Spec).                      *)
(***************************************************************************)
\* A text that is exactly six decimal digits.
SeisDigitos(t) == Len(t) = 6 /\ \A i \in 1..6 : t[i] \in {"0", "1", "2", "3", "4", "5", "6", "7", "8", "9"}

\* s holds the words of the row ws, each once, by ascending x0.
OrdenadaPorX0(s, ws) ==
    /\ Len(s) = Len(ws)
    /\ {s[i] : i \in DOMAIN s} = {ws[i] : i \in DOMAIN ws}
    /\ \A i \in DOMAIN s : \A j \in DOMAIN s : i < j => s[i].x0 <= s[j].x0

\* C20: when a row is handled, its words are taken by ascending x0 and the
\* code of the row is the text of the first of them that is exactly six
\* digits; when no word of the row is, the row has no code and the ledger
\* stays as it was, whatever numeric words the row holds.
C20_PrimerTextoDeSeisDigitos ==
    [][(fase = "pagina" /\ pendientes # <<>>) =>
         /\ OrdenadaPorX0(fila', pendientes[1].palabras)
         /\ \A i \in DOMAIN fila' :
                (SeisDigitos(fila'[i].text) /\ \A j \in 1..(i - 1) : ~SeisDigitos(fila'[j].text)) => codigo' = fila'[i].text
         /\ (\A i \in DOMAIN fila' : ~SeisDigitos(fila'[i].text)) => (codigo' = <<>> /\ cuentas' = cuentas)]_vars

\* A row of two numbers without code was just skipped, on a ledger whose
\* only account came from a row of two six-digit words: the left one is
\* its code and the right one its amount.
C20_Witness ==
    /\ fase = "pagina"
    /\ codigo = <<>>
    /\ Len(fila) = 2
    /\ \A i \in DOMAIN fila : patron_numerico(fila[i].text) /\ _fmt_numero(fila[i].text) > 0
    /\ DOMAIN cuentas = {T_000000}
    /\ \E k \in DOMAIN cuentas[T_000000].montos : cuentas[T_000000].montos[k] = 110101

\* C23: no step of the run removes a code from the ledger, removes a column
\* from a record, lowers a stored amount or changes the name stored for a
\* code the ledger already holds.
C23_SoloCrece ==
    [][\A c \in DOMAIN cuentas :
          /\ c \in DOMAIN cuentas'
          /\ cuentas'[c].cuenta = cuentas[c].cuenta
          /\ \A k \in DOMAIN cuentas[c].montos :
                 k \in DOMAIN cuentas'[c].montos /\ cuentas'[c].montos[k] >= cuentas[c].montos[k]]_vars

\* A second row of a code was just added to its record: the record keeps
\* the name of the first row, and holds more than the second row brought.
C23_Witness ==
    /\ fase = "pagina"
    /\ codigo = T_110101
    /\ T_110101 \in DOMAIN cuentas
    /\ cuentas[T_110101].cuenta = T_CAJA
    /\ nombre = <<>>
    /\ \E k \in cols_relevantes : k \in DOMAIN registro /\ Monto(T_110101, k) > registro[k]

(***************************************************************************)
(* Properties of the rows of a page (checked under SpecPagina).             *)
(***************************************************************************)
\* A text made of digits and dots only, one character at least.
SoloDigitosYPuntos(t) == t # <<>> /\ \A i \in DOMAIN t : t[i] \in {"0", "1", "2", "3", "4", "5", "6", "7", "8", "9", "."}

\* The texts, each followed by one space.
RECURSIVE CadaUnoConEspacio(_)
CadaUnoConEspacio(ts) == IF ts = <<>> THEN <<>> ELSE CadaUnoConEspacio(SubSeq(ts, 1, Len(ts) - 1)) \o ts[Len(ts)] \o <<" ">>

\* The texts separated by single spaces.
SeparadosPorEspacio(ts) == IF ts = <<>> THEN <<>> ELSE SubSeq(CadaUnoConEspacio(ts), 1, Len(CadaUnoConEspacio(ts)) - 1)

TextosDe(ws) == [i \in DOMAIN ws |-> ws[i].text]

\* The place of the code in the texts of a row that has one.
Ancla(ts) == CHOOSE i \in DOMAIN ts : SeisDigitos(ts[i]) /\ \A j \in 1..(i - 1) : ~SeisDigitos(ts[j])

\* C21: the name of a row with code is the texts that follow the code up
\* to, and without, the first text made of digits and dots only, separated
\* by single spaces: texts after that first numeric one are no part of the
\* name, and the name is empty when the text right after the code is
\* numeric (or the code is the last text of the row).
C21_NombreHastaElPrimerNumero ==
    \A p \in DOMAIN procesadas :
        procesadas[p].it.codigo # <<>> =>
            \A ts \in {TextosDe(procesadas[p].it.fila)} :
                \E n \in 0..(Len(ts) - Ancla(ts)) :
                    /\ \A j \in 1..n : ~SoloDigitosYPuntos(ts[Ancla(ts) + j])
                    /\ Ancla(ts) + n = Len(ts) \/ SoloDigitosYPuntos(ts[Ancla(ts) + n + 1])
                    /\ procesadas[p].it.nombre = SeparadosPorEspacio(SubSeq(ts, Ancla(ts) + 1, Ancla(ts) + n))

\* A row code, CAJA, 1.5, CAJA: its name is CAJA.
C21_Witness ==
    \E p \in DOMAIN procesadas :
        /\ TextosDe(procesadas[p].it.fila) = <<T_110101, T_CAJA, T_1p5, T_CAJA>>
        /\ procesadas[p].it.codigo = T_110101
        /\ procesadas[p].it.nombre = T_CAJA

\* round(top / 3) for an integer top.
Redondeo(top) == CHOOSE q \in 0..top : 2 * abs(top - 3 * q) < 3

\* C22: every word of the page is in exactly one row, two words are in the
\* same row exactly when round(top / 3) is the same for both, the rows are
\* handled in strictly ascending order of band, and the words of each row
\* are ordered by ascending x0; a page without words has no rows.
C22_FilasPorBanda ==
    fase = "entre" =>
        /\ \A i \in DOMAIN page_words :
              Cardinality({p \in DOMAIN procesadas : \E j \in DOMAIN procesadas[p].it.fila : procesadas[p].it.fila[j] = page_words[i]}) = 1
        /\ \A p \in DOMAIN procesadas :
              /\ procesadas[p].it.fila # <<>>
              /\ \A j \in DOMAIN procesadas[p].it.fila : \E i \in DOMAIN page_words : page_words[i] = procesadas[p].it.fila[j]
              /\ \A j \in DOMAIN procesadas[p].it.fila : \A k \in DOMAIN procesadas[p].it.fila :
                     j < k => /\ procesadas[p].it.fila[j].x0 <= procesadas[p].it.fila[k].x0
                              /\ procesadas[p].it.fila[j] # procesadas[p].it.fila[k]
        /\ \A p \in DOMAIN procesadas : \A q \in DOMAIN procesadas :
              \A j \in DOMAIN procesadas[p].it.fila : \A k \in DOMAIN procesadas[q].it.fila :
                  (p = q) <=> (Redondeo(procesadas[p].it.fila[j].top) = Redondeo(procesadas[q].it.fila[k].top))
        /\ \A p \in DOMAIN procesadas : \A q \in DOMAIN procesadas :
              p < q => Redondeo(procesadas[p].it.fila[1].top) < Redondeo(procesadas[q].it.fila[1].top)
        /\ page_words = <<>> => procesadas = <<>>

\* Two rows; the second holds words of tops 11 and 13, and its words were
\* returned from right to left.
C22_Witness ==
    /\ fase = "entre"
    /\ Len(page_words) = 4
    /\ Len(procesadas) = 2
    /\ Len(procesadas[2].it.fila) = 3
    /\ \E j \in 1..3 : \E k \in 1..3 : procesadas[2].it.fila[j].top = 11 /\ procesadas[2].it.fila[k].top = 13
    /\ page_words[1].top = 13
    /\ page_words[1].x0 > page_words[2].x0
    /\ page_words[2].top = 11
    /\ page_words[4].top = 10

(***************************************************************************)
(* Properties of the amounts of a row (checked under Spec).                 *)
(***************************************************************************)
\* C26: in every state of the run, every amount the ledger stores is
\* strictly positive and its column received a word of positive value from
\* a retained row of the code; in the row at hand, every column of registro
\* holds a positive amount and was assigned a word of positive value, so a
\* word of value 0 never creates a column.
C26_SinColumnasEnCero ==
    /\ \A c \in DOMAIN cuentas : \A k \in DOMAIN cuentas[c].montos :
          cuentas[c].montos[k] > 0 /\ get(retenido, <<c, k>>) > 0
    /\ \A k \in DOMAIN registro :
          registro[k] > 0 /\ \E i \in DOMAIN valores_x : asignadas[i] = k /\ valores_x[i].valor > 0

\* A retained row held a word of value 0 next to its amount: the column
\* nearest to that word is absent from the row's registro and from the
\* record of the code.
C26_Witness ==
    /\ fase = "pagina"
    /\ codigo \in DOMAIN cuentas
    /\ tiene_saldo(registro)
    /\ \E i \in DOMAIN valores_x :
          /\ valores_x[i].valor = 0
          /\ asignadas[i] \in ColumnasNumericas
          /\ asignadas[i] \notin DOMAIN registro
          /\ asignadas[i] \notin DOMAIN cuentas[codigo].montos

\* The place, among the numeric words of the row at hand, of its code.
AnclaEnValores == Cardinality({j \in 1..Ancla(TextosDe(fila)) : SoloDigitosYPuntos(fila[j].text)})

\* The sum of the positive values of valores_x that went to column k, the
\* code of the row left out.
RECURSIVE SumaAsignadaSinAncla(_, _)
SumaAsignadaSinAncla(k, n) ==
    IF n = 0 THEN 0
    ELSE SumaAsignadaSinAncla(k, n - 1) + (IF n # AnclaEnValores /\ asignadas[n] = k /\ valores_x[n].valor > 0 THEN valores_x[n].valor ELSE 0)

\* C27 as stated: what a row with code puts in each column, debitos
\* included, is the sum of the values of its numeric words other than the
\* code.
C27_Original ==
    (fase = "pagina" /\ codigo # <<>>) =>
        \A k \in ColumnasNumericas : get(registro, k) = SumaAsignadaSinAncla(k, Len(valores_x))

(***************************************************************************)
(* Properties of the ledger across orders and of the queries (checked under *)
(* SpecPerm and SpecConsulta).                                              *)
(***************************************************************************)
\* The amounts of a ledger: for each code, its columns and their amounts.
MontosDe(cs) == [c \in DOMAIN cs |-> cs[c].montos]

\* C18: the codes of the final ledger and the amount of each code in each
\* column are the same whether the pages of the document are processed in
\* their order or swapped, and whether the rows of a page are processed
\* from the first or from the last.
C18_MontosIndependientesDelOrden ==
    documento # <<>> => MontosDe(cuentas) = MontosDe(permutado)

C18_Witness ==
    /\ documento # <<>>
    /\ Len(documento[1]) >= 1
    /\ Len(documento[2]) >= 1
    /\ T_110101 \in DOMAIN cuentas
    /\ cuentas[T_110101].cuenta # permutado[T_110101].cuenta
    /\ documento[1][1].codigo = T_110101
    /\ documento[2][1].codigo = T_110101
    /\ documento[1][1].registro # documento[2][1].registro
    /\ Monto(T_110101, "perdidas") = 220217

\* The order the claim gives for a call without column.
ORDEN_CLAIM == <<"ganancias", "perdidas", "activos", "pasivos", "saldo_acreedor", "saldo_deudor">>

\* What get_valor is to return for a code and a column on the ledger.
ValorEsperado(cod, columna, v) ==
    IF cod \notin DOMAIN cuentas THEN v = 0
    ELSE IF columna # None THEN v = (IF columna \in DOMAIN cuentas[cod].montos THEN cuentas[cod].montos[columna] ELSE 0)
    ELSE \/ \E i \in DOMAIN ORDEN_CLAIM :
               /\ Monto(cod, ORDEN_CLAIM[i]) > 0
               /\ v = Monto(cod, ORDEN_CLAIM[i])
               /\ \A j \in 1..(i - 1) : Monto(cod, ORDEN_CLAIM[j]) = 0
         \/ /\ v = 0
            /\ \A i \in DOMAIN ORDEN_CLAIM : Monto(cod, ORDEN_CLAIM[i]) = 0

====
